---- MODULE Spec2Model ----
(***************************************************************************)
(* XebecServer (src/mod.ts): the routing table, the middleware pipeline,   *)
(* the dispatcher and the mount resolver, as a state machine.              *)
(*                                                                         *)
(* A string is a sequence of one-character strings, so that the pattern    *)
(* compiler, the regular expression matcher and the URL parser work on     *)
(* characters as the code does.  User code (middleware, handlers, validate *)
(* predicates, error handlers) is the environment: what a callback does    *)
(* is chosen when it is invoked.                                           *)
(***************************************************************************)
EXTENDS Integers, Sequences, FiniteSets, TLC

VARIABLES
  middlewares,     \* [server -> sequence of global middleware]   (mod.ts:59)
  routes,          \* [server -> [method -> sequence of routes]]  (mod.ts:47)
  wildcardRoutes,  \* [server -> [method -> handler or Null]]     (mod.ts:60)
  options,         \* [server -> ServerOptions]                   (mod.ts:61)
  handlerCount,    \* handler functions created so far (names the next one)
  stack,           \* [dispatch -> activation frames, innermost last]
  ctl,             \* [dispatch -> what the dispatch executes next]
  trace,           \* [dispatch -> the user code invoked so far, in order]
  result,          \* [dispatch -> the response handler() returned, or Null]
  rateLimitOptions,\* the options rateLimit() was created with (middleware.ts:108)
  requests,        \* rateLimit's Map: [key -> {count, resetTime}]  (middleware.ts:109)
  clock,           \* what Date.now() returns
  calls            \* the calls of the rateLimit middleware so far, in order

config  == <<middlewares, routes, wildcardRoutes, options, handlerCount>>
run     == <<stack, ctl, trace, result>>
limiter == <<rateLimitOptions, requests, clock, calls>>
vars    == <<middlewares, routes, wildcardRoutes, options, handlerCount,
             stack, ctl, trace, result,
             rateLimitOptions, requests, clock, calls>>

Null == "null"

Servers   == {"app", "sub"}
Methods   == {"GET", "POST", "OPTIONS"}
Dispatch  == {"d1", "d2"}

----------------------------------------------------------------------------
(* Characters and strings *)

Digits    == {"0", "1", "2", "3", "4", "5", "6", "7", "8", "9"}
WordChars == {"a", "b", "c", "f", "i", "x", "y", "_"} \cup Digits
MetaChars == {".", "+", "?", "^", "$", "{", "}", "(", ")", "|", "[", "]", "\\"}

Max(S) == CHOOSE x \in S : \A y \in S : y <= x
Min(S) == CHOOSE x \in S : \A y \in S : x <= y

StartsWith(s, p) == Len(p) <= Len(s) /\ SubSeq(s, 1, Len(p)) = p
Slice(s, n)      == SubSeq(s, n + 1, Len(s))

\* The first position >= i of s that holds a character of C, or Len(s)+1.
RECURSIVE IndexOf(_, _, _)
IndexOf(s, C, i) ==
  IF i > Len(s) \/ s[i] \in C THEN i ELSE IndexOf(s, C, i + 1)

\* s.split(sep)
RECURSIVE Split(_, _)
Split(s, sep) ==
  LET k == IndexOf(s, {sep}, 1)
  IN  IF k > Len(s) THEN <<s>>
      ELSE <<SubSeq(s, 1, k - 1)>> \o Split(Slice(s, k), sep)

----------------------------------------------------------------------------
(* Path matcher: addRoute's pattern compiler and RegExp.exec *)

Group  == "([^\\/]+)"
AnyStr == ".*"

\* path.replace(/[.+?^${}()|[\]\\]/g, "\\$&")
RECURSIVE Escape(_)
Escape(path) ==
  IF path = <<>> THEN <<>>
  ELSE (IF Head(path) \in MetaChars THEN <<"\\", Head(path)>> ELSE <<Head(path)>>)
       \o Escape(Tail(path))

\* The length of the run of \w characters of s that starts at position i.
RECURSIVE WordRun(_, _)
WordRun(s, i) ==
  IF i <= Len(s) /\ s[i] \in WordChars THEN 1 + WordRun(s, i + 1) ELSE 0

\* regexPattern.replace(/:\w+/g, ...): each :name becomes the capturing group.
RECURSIVE ReplaceParams(_, _)
ReplaceParams(s, i) ==
  IF i > Len(s) THEN <<>>
  ELSE IF s[i] = ":" /\ WordRun(s, i + 1) > 0
       THEN <<Group>> \o ReplaceParams(s, i + 1 + WordRun(s, i + 1))
       ELSE <<s[i]>> \o ReplaceParams(s, i + 1)

\* The callback of the same replace: paramNames.push(param.slice(1)).
RECURSIVE CollectParamNames(_, _)
CollectParamNames(s, i) ==
  IF i > Len(s) THEN <<>>
  ELSE IF s[i] = ":" /\ WordRun(s, i + 1) > 0
       THEN <<SubSeq(s, i + 1, i + WordRun(s, i + 1))>>
            \o CollectParamNames(s, i + 1 + WordRun(s, i + 1))
       ELSE CollectParamNames(s, i + 1)

\* regexPattern.replace(/\*/g, ".*")
ReplaceStars(s) == [k \in 1..Len(s) |-> IF s[k] = "*" THEN AnyStr ELSE s[k]]

\* new RegExp(`^${...}$`): the source of the regular expression, atom by atom.
CompileRegex(path) ==
  <<"^">> \o ReplaceStars(ReplaceParams(Escape(path), 1)) \o <<"$">>

NoMatch == [ok |-> FALSE, caps |-> <<>>]

\* The length of the run of non-slash characters of s that starts at j.
NonSlashRun(s, j) == IndexOf(s, {"/"}, j) - j

\* A backtracking match of the atoms re[k..] against s from position j;
\* a quantified atom tries its longest repetition first.
RECURSIVE MatchAt(_, _, _, _)
MatchAt(re, k, s, j) ==
  IF k > Len(re) THEN [ok |-> TRUE, caps |-> <<>>]
  ELSE IF re[k] = "^" THEN (IF j = 1 THEN MatchAt(re, k + 1, s, j) ELSE NoMatch)
  ELSE IF re[k] = "$"
       THEN (IF j = Len(s) + 1 THEN MatchAt(re, k + 1, s, j) ELSE NoMatch)
  ELSE IF re[k] = "\\"
       THEN (IF j <= Len(s) /\ s[j] = re[k + 1]
             THEN MatchAt(re, k + 2, s, j + 1) ELSE NoMatch)
  ELSE IF re[k] = Group
       THEN LET good == {n \in 1..NonSlashRun(s, j) : MatchAt(re, k + 1, s, j + n).ok}
            IN  IF good = {} THEN NoMatch
                ELSE LET n == Max(good)
                         rest == MatchAt(re, k + 1, s, j + n)
                     IN  [ok |-> TRUE,
                          caps |-> <<SubSeq(s, j, j + n - 1)>> \o rest.caps]
  ELSE IF re[k] = AnyStr
       THEN LET good == {n \in 0..(Len(s) + 1 - j) : MatchAt(re, k + 1, s, j + n).ok}
            IN  IF good = {} THEN NoMatch ELSE MatchAt(re, k + 1, s, j + Max(good))
  ELSE IF j <= Len(s) /\ s[j] = re[k]
       THEN MatchAt(re, k + 1, s, j + 1) ELSE NoMatch

\* route.regex.exec(pathname): the leftmost match; caps[i] is match[i].
RegexExec(re, s) ==
  LET starts == {j \in 1..(Len(s) + 1) : MatchAt(re, 1, s, j).ok}
  IN  IF starts = {} THEN NoMatch ELSE MatchAt(re, 1, s, Min(starts))

\* route.paramNames.forEach((name, index) => params[name] = match[index + 1])
BuildParams(paramNames, caps) ==
  [n \in {paramNames[i] : i \in 1..Len(paramNames)} |->
     caps[Max({i \in 1..Len(paramNames) : paramNames[i] = n})]]

----------------------------------------------------------------------------
(* URL handling *)

\* new URLSearchParams(url.search).forEach((value, key) => query[key] = value)
\* (percent-decoding is left out: the searches drawn hold no % and no +).
ParseQuery(search) ==
  LET body  == IF search # <<>> /\ Head(search) = "?" THEN Tail(search) ELSE search
      parts == SelectSeq(Split(body, "&"), LAMBDA p : p # <<>>)
      key(p) == SubSeq(p, 1, IndexOf(p, {"="}, 1) - 1)
      val(p) == Slice(p, IndexOf(p, {"="}, 1))
  IN  [q \in {key(parts[i]) : i \in 1..Len(parts)} |->
         val(parts[Max({i \in 1..Len(parts) : key(parts[i]) = q})])]

\* The length of the run of slashes of s that starts at position i.
RECURSIVE SlashRun(_, _)
SlashRun(s, i) ==
  IF i <= Len(s) /\ s[i] = "/" THEN 1 + SlashRun(s, i + 1) ELSE 0

\* new URL(ref, origin) for an http origin and a reference without a scheme and
\* without dot segments: "//..." names a new authority (further slashes are
\* skipped, an empty host is a TypeError), "/..." is a path of the same host,
\* anything else is resolved against the root path.
ParseUrl(ref, host) ==
  LET q      == IndexOf(ref, {"?"}, 1)
      before == SubSeq(ref, 1, q - 1)
      search == IF q >= Len(ref) THEN <<>> ELSE SubSeq(ref, q, Len(ref))
      lead   == SlashRun(before, 1)
  IN  IF StartsWith(before, <<"/", "/">>)
      THEN LET auth == Slice(before, lead)
               e    == IndexOf(auth, {"/"}, 1)
           IN  IF auth = <<>> THEN [ok |-> FALSE, host |-> host,
                                    pathname |-> <<>>, search |-> <<>>]
               ELSE [ok |-> TRUE, host |-> SubSeq(auth, 1, e - 1),
                     pathname |-> IF e > Len(auth) THEN <<"/">> ELSE Slice(auth, e - 1),
                     search |-> search]
      ELSE [ok |-> TRUE, host |-> host,
            pathname |-> IF StartsWith(before, <<"/">>) THEN before
                         ELSE <<"/">> \o before,
            search |-> search]

----------------------------------------------------------------------------
(* Requests and responses *)

NaN == [isNaN |-> TRUE, n |-> 0]

DigitValue(c) ==
  CASE c = "0" -> 0 [] c = "1" -> 1 [] c = "2" -> 2 [] c = "3" -> 3 [] c = "4" -> 4
    [] c = "5" -> 5 [] c = "6" -> 6 [] c = "7" -> 7 [] c = "8" -> 8 [] c = "9" -> 9

\* The value of the digits s[i..], after the digits read so far gave acc.
RECURSIVE DigitsValue(_, _, _)
DigitsValue(s, i, acc) ==
  IF i <= Len(s) /\ s[i] \in Digits
  THEN DigitsValue(s, i + 1, 10 * acc + DigitValue(s[i]))
  ELSE acc

\* parseInt(s): an optional sign and the longest run of digits, NaN without one
\* (leading white space is not drawn).
ParseInt(s) ==
  LET signed == s # <<>> /\ s[1] \in {"-", "+"}
      from   == IF signed THEN 2 ELSE 1
      v      == DigitsValue(s, from, 0)
  IN  IF from > Len(s) \/ s[from] \notin Digits THEN NaN
      ELSE [isNaN |-> FALSE, n |-> IF signed /\ s[1] = "-" THEN 0 - v ELSE v]

\* Response headers: the value of each header a model response may carry,
\* <<>> when the header is absent.
HeaderNames == {"content-type", "x-default", "x-order",
                "access-control-allow-origin"}
NoHeaders   == [h \in HeaderNames |-> <<>>]

\* response.headers.append(name, value): values of one name read as a
\* comma-separated list in the order they were appended.
AppendHeader(headers, name, value) ==
  [headers EXCEPT ![name] = IF @ = <<>> THEN value ELSE @ \o <<",", " ">> \o value]

\* new Response(body, {status}) built by user code.
UserResponse(status, body) == [status |-> status, body |-> body, headers |-> NoHeaders]

\* ResponseHelper.error(message, status), types.ts: the JSON {error: message}.
ErrorResponse(message, status) ==
  [status |-> status, body |-> message,
   headers |-> [NoHeaders EXCEPT !["content-type"] = <<"application/json">>]]

DefaultMaxBodySize == 1048576

\* The constructor: { debug: false, maxBodySize: 1024 * 1024, ...options };
\* opts.maxBodySize is <<>> when the option is not given, <<n>> when it is.
XebecServer(opts) ==
  [maxBodySize  |-> IF opts.maxBodySize = <<>> THEN DefaultMaxBodySize
                    ELSE opts.maxBodySize[1],
   errorHandler |-> opts.errorHandler,
   defaultHeaders |-> opts.defaultHeaders]

----------------------------------------------------------------------------
(* Registration *)

\* wildcardRoutes[method] when no handler is set (undefined or null).
NoHandler == 0

\* A route's config when none is given: no middleware, no options.
NoConfig ==
  [middleware |-> <<>>,
   options    |-> [parseJson |-> FALSE, parseUrlEncoded |-> FALSE, validate |-> FALSE]]

UserMiddleware == [kind |-> "user", prefix |-> <<>>, instance |-> Null]

\* use(middleware)
Use(s, middleware) ==
  /\ middlewares' = [middlewares EXCEPT ![s] = Append(@, middleware)]
  /\ UNCHANGED <<routes, wildcardRoutes, options, handlerCount, run, limiter>>

\* route(prefix, instance): the prefix is given a leading slash and the mount
\* is registered as one global middleware.
Route(s, prefix, instance) ==
  LET normal == IF StartsWith(prefix, <<"/">>) THEN prefix ELSE <<"/">> \o prefix
  IN  Use(s, [kind |-> "route", prefix |-> normal, instance |-> instance])

\* Mutant of AddRoute: a "*" registration is also pushed onto the method's
\* route list, with its config.
AddRouteWildcardListed(s, method, path, cfg) ==
  LET paramNames == CollectParamNames(Escape(path), 1)
      isWildcard == path = <<"*">>
      regex      == CompileRegex(path)
      handler    == handlerCount + 1
  IN  /\ handlerCount' = handler
      /\ wildcardRoutes' = IF isWildcard
                           THEN [wildcardRoutes EXCEPT ![s][method] = handler]
                           ELSE wildcardRoutes
      /\ routes' = [routes EXCEPT ![s][method] = Append(@,
                       [pattern    |-> path,
                        regex      |-> regex,
                        paramNames |-> paramNames,
                        handler    |-> handler,
                        isWildcard |-> isWildcard,
                        middleware |-> cfg.middleware,
                        options    |-> cfg.options])]
      /\ UNCHANGED <<middlewares, options, run, limiter>>

\* addRoute(method, path, handler, config); the handler registered is a new
\* function, named by handlerCount.
AddRoute(s, method, path, cfg) ==
  LET paramNames == CollectParamNames(Escape(path), 1)
      isWildcard == path = <<"*">>
      regex      == CompileRegex(path)
      handler    == handlerCount + 1
  IN  /\ handlerCount' = handler
      /\ IF isWildcard
         THEN /\ wildcardRoutes' = [wildcardRoutes EXCEPT ![s][method] = handler]
              /\ UNCHANGED routes
         ELSE /\ routes' = [routes EXCEPT ![s][method] = Append(@,
                   [pattern    |-> path,
                    regex      |-> regex,
                    paramNames |-> paramNames,
                    handler    |-> handler,
                    isWildcard |-> isWildcard,
                    middleware |-> cfg.middleware,
                    options    |-> cfg.options])]
              /\ UNCHANGED wildcardRoutes
      /\ UNCHANGED <<middlewares, options, run, limiter>>

GET(s, path, cfg)  == AddRoute(s, "GET", path, cfg)
POST(s, path, cfg) == AddRoute(s, "POST", path, cfg)
OPTIONS(s, path, cfg) == AddRoute(s, "OPTIONS", path, cfg)

----------------------------------------------------------------------------
(* Route resolution *)

\* The positions of the routes of the method whose regex matches the pathname.
Matching(s, method, pathname) ==
  {i \in 1..Len(routes[s][method]) :
     RegexExec(routes[s][method][i].regex, pathname).ok}

\* Mutant of FirstMatching: the loop keeps the last route that matches.
LastMatching(s, method, pathname) == Max(Matching(s, method, pathname))

\* for (const route of routesForMethod) { ... if (match) return ... }: the
\* loop returns at the first route that matches.
FirstMatching(s, method, pathname) == Min(Matching(s, method, pathname))

\* Mutant of FindMatchingRoute: the wildcard slot is looked at first.
FindMatchingRouteWildcardFirst(s, method, pathname, search) ==
  LET routesForMethod == routes[s][method]
      hits            == Matching(s, method, pathname)
  IN  IF wildcardRoutes[s][method] # NoHandler
      THEN [found |-> TRUE, handler |-> wildcardRoutes[s][method], route |-> 0,
            params |-> <<>>, query |-> <<>>]
      ELSE IF hits # {}
      THEN LET i     == FirstMatching(s, method, pathname)
               match == RegexExec(routesForMethod[i].regex, pathname)
           IN  [found   |-> TRUE,
                handler |-> routesForMethod[i].handler,
                route   |-> i,
                params  |-> BuildParams(routesForMethod[i].paramNames, match.caps),
                query   |-> ParseQuery(search)]
      ELSE [found |-> FALSE, handler |-> NoHandler, route |-> 0,
            params |-> <<>>, query |-> <<>>]

\* Mutant of FindMatchingRoute: without a match and without a wildcard the
\* first route of the method answers.
FindMatchingRouteFirstAsDefault(s, method, pathname, search) ==
  LET routesForMethod == routes[s][method]
      hits            == Matching(s, method, pathname)
      i               == IF hits # {} THEN FirstMatching(s, method, pathname) ELSE 1
  IN  IF hits # {} \/ (wildcardRoutes[s][method] = NoHandler /\ routesForMethod # <<>>)
      THEN [found   |-> TRUE,
            handler |-> routesForMethod[i].handler,
            route   |-> i,
            params  |-> <<>>,
            query   |-> ParseQuery(search)]
      ELSE IF wildcardRoutes[s][method] # NoHandler
      THEN [found |-> TRUE, handler |-> wildcardRoutes[s][method], route |-> 0,
            params |-> <<>>, query |-> <<>>]
      ELSE [found |-> FALSE, handler |-> NoHandler, route |-> 0,
            params |-> <<>>, query |-> <<>>]

\* Mutant of FindMatchingRoute: without a wildcard handler of the method the
\* wildcard handler of another method answers.
FindMatchingRouteAnyWildcard(s, method, pathname, search) ==
  LET routesForMethod == routes[s][method]
      hits            == Matching(s, method, pathname)
      others          == {m \in Methods : wildcardRoutes[s][m] # NoHandler}
  IN  IF hits # {}
      THEN LET i     == FirstMatching(s, method, pathname)
               match == RegexExec(routesForMethod[i].regex, pathname)
           IN  [found   |-> TRUE,
                handler |-> routesForMethod[i].handler,
                route   |-> i,
                params  |-> BuildParams(routesForMethod[i].paramNames, match.caps),
                query   |-> ParseQuery(search)]
      ELSE IF others # {}
      THEN [found |-> TRUE,
            handler |-> wildcardRoutes[s][IF method \in others THEN method
                                          ELSE CHOOSE m \in others : TRUE],
            route |-> 0, params |-> <<>>, query |-> <<>>]
      ELSE [found |-> FALSE, handler |-> NoHandler, route |-> 0,
            params |-> <<>>, query |-> <<>>]

\* findMatchingRoute(method, pathname, url): route is the position of the
\* matched route in routes[method], 0 for the wildcard slot (route: null).
FindMatchingRoute(s, method, pathname, search) ==
  LET routesForMethod == routes[s][method]
      hits            == Matching(s, method, pathname)
  IN  IF hits # {}
      THEN LET i     == FirstMatching(s, method, pathname)
               match == RegexExec(routesForMethod[i].regex, pathname)
           IN  [found   |-> TRUE,
                handler |-> routesForMethod[i].handler,
                route   |-> i,
                params  |-> BuildParams(routesForMethod[i].paramNames, match.caps),
                query   |-> ParseQuery(search)]
      ELSE IF wildcardRoutes[s][method] # NoHandler
      THEN [found |-> TRUE, handler |-> wildcardRoutes[s][method], route |-> 0,
            params |-> <<>>, query |-> <<>>]
      ELSE [found |-> FALSE, handler |-> NoHandler, route |-> 0,
            params |-> <<>>, query |-> <<>>]

----------------------------------------------------------------------------
(* Dispatch.  A dispatch is a stack of activations and the point of control:
   "runMiddleware"/"runNext" (the continuation is about to run), "middleware",
   "route", "applyRouteOptions", "handler" (that code has just been invoked),
   "return"/"throw" (a response or an error travels to the innermost frame). *)

Idle == [op |-> "idle"]
Done == [op |-> "done"]

Top(stk) == stk[Len(stk)]
Pop(stk) == SubSeq(stk, 1, Len(stk) - 1)

\* The innermost activation of the given kind: the one a closure created last.
Innermost(stk, kind) == Max({i \in 1..Len(stk) : stk[i].kind = kind})

Log(d, e) == trace' = [trace EXCEPT ![d] = Append(@, e)]

\* Mutant of EnterHandler: the limit is the default, whatever was configured.
EnterHandlerDefaultLimit(stk, s, req) ==
  LET header        == req.contentLength
      contentLength == ParseInt(IF header = <<>> THEN <<"0">> ELSE header)
  IN  IF ~contentLength.isNaN /\ contentLength.n > DefaultMaxBodySize
      THEN [stack |-> stk,
            ctl   |-> [op |-> "return",
                       response |-> ErrorResponse("Request entity too large", 413)]]
      ELSE [stack |-> Append(stk, [kind |-> "handler", srv |-> s, req |-> req,
                                   index |-> 0, params |-> <<>>, query |-> <<>>,
                                   body |-> Null]),
            ctl   |-> [op |-> "runMiddleware"]]

\* Mutant of EnterHandler: a declared length equal to the limit is rejected.
EnterHandlerRejectsEqual(stk, s, req) ==
  LET header        == req.contentLength
      contentLength == ParseInt(IF header = <<>> THEN <<"0">> ELSE header)
  IN  IF ~contentLength.isNaN /\ contentLength.n >= options[s].maxBodySize
      THEN [stack |-> stk,
            ctl   |-> [op |-> "return",
                       response |-> ErrorResponse("Request entity too large", 413)]]
      ELSE [stack |-> Append(stk, [kind |-> "handler", srv |-> s, req |-> req,
                                   index |-> 0, params |-> <<>>, query |-> <<>>,
                                   body |-> Null]),
            ctl   |-> [op |-> "runMiddleware"]]

\* handler(req) up to the call of runMiddleware (mod.ts:173-187): the body
\* size check, then the request context with empty params and query.
EnterHandler(stk, s, req) ==
  LET header        == req.contentLength
      contentLength == ParseInt(IF header = <<>> THEN <<"0">> ELSE header)
  IN  IF ~contentLength.isNaN /\ contentLength.n > options[s].maxBodySize
      THEN [stack |-> stk,
            ctl   |-> [op |-> "return",
                       response |-> ErrorResponse("Request entity too large", 413)]]
      ELSE [stack |-> Append(stk, [kind |-> "handler", srv |-> s, req |-> req,
                                   index |-> 0, params |-> <<>>, query |-> <<>>,
                                   body |-> Null]),
            ctl   |-> [op |-> "runMiddleware"]]

\* A call of handler(req) by the transport.
Handler(d, s, req) ==
  /\ ctl[d] = Idle
  /\ LET e == EnterHandler(<<>>, s, req)
     IN  /\ stack' = [stack EXCEPT ![d] = e.stack]
         /\ IF e.ctl.op = "return"
            THEN /\ result' = [result EXCEPT ![d] = e.ctl.response]
                 /\ ctl' = [ctl EXCEPT ![d] = Done]
            ELSE /\ ctl' = [ctl EXCEPT ![d] = e.ctl]
                 /\ UNCHANGED result
  /\ trace' = [trace EXCEPT ![d] = <<[ev |-> "request", srv |-> s, req |-> req,
                                      registered |-> Len(middlewares[s])]>>]
  /\ UNCHANGED <<config, limiter>>

\* Mutant of MiddlewareAt: the middleware registered last is entered first,
\* the others follow in registration order.
MiddlewareAtLastFirst(s, index) ==
  IF index = 0 THEN Len(middlewares[s]) ELSE index

\* Mutant of MiddlewareAt: the chain is walked from its last middleware.
MiddlewareAtReversed(s, index) == Len(middlewares[s]) - index

\* this.middlewares[index++]: the position, in the 1-based sequence, of the
\* middleware invoked when the closure's index has the given value.
MiddlewareAt(s, index) == index + 1

\* Mutant of ChainIndex: one index is shared by the handler() calls in
\* flight, as if it were a field of the server.
ChainIndexShared(d, hi) ==
  Max({stack[d][hi].index} \cup
      {stack[o][1].index : o \in {x \in Dispatch : stack[x] # <<>>}})

\* let index = 0 (mod.ts:188): the variable the runMiddleware closure of one
\* handler() call captures, kept in the activation of that call.
ChainIndex(d, hi) == stack[d][hi].index

\* runMiddleware() (mod.ts:189-214): the next global middleware, or the
\* terminal step: route resolution, then the route's chain or its options.
RunMiddleware(d) ==
  /\ ctl[d].op = "runMiddleware"
  /\ LET hi == Innermost(stack[d], "handler")
         f  == stack[d][hi]
         s  == f.srv
         index == ChainIndex(d, hi)
     IN  IF index < Len(middlewares[s])
         THEN /\ stack' = [stack EXCEPT ![d][hi].index = index + 1]
              /\ ctl' = [ctl EXCEPT ![d] =
                   [op |-> CASE middlewares[s][MiddlewareAt(s, index)].kind = "route"
                                  -> "route"
                             [] middlewares[s][MiddlewareAt(s, index)].kind = "cors"
                                  -> "cors"
                             [] OTHER -> "middleware",
                    srv |-> s, scope |-> "global",
                    index |-> MiddlewareAt(s, index)]]
              /\ UNCHANGED trace
         ELSE LET matchResult ==
                    FindMatchingRoute(s, f.req.method, f.req.pathname, f.req.search)
              IN  /\ Log(d, [ev |-> "terminal", srv |-> s,
                             found |-> matchResult.found,
                             route |-> matchResult.route])
                  /\ IF ~matchResult.found
                     THEN /\ ctl' = [ctl EXCEPT ![d] =
                               [op |-> "return",
                                response |-> ErrorResponse("Not found", 404)]]
                          /\ UNCHANGED stack
                     ELSE LET cloned == [f EXCEPT !.params = matchResult.params,
                                                  !.query = matchResult.query]
                              stk    == [stack[d] EXCEPT ![hi] = cloned]
                              local  == IF matchResult.route = 0 THEN <<>>
                                        ELSE routes[s][f.req.method][matchResult.route].middleware
                          IN  IF Len(local) > 0
                              THEN /\ stack' = [stack EXCEPT ![d] = Append(stk,
                                        [kind |-> "processRouteMiddleware", srv |-> s,
                                         route |-> matchResult.route,
                                         middlewareIndex |-> 0,
                                         finalHandler |-> matchResult.handler])]
                                   /\ ctl' = [ctl EXCEPT ![d] = [op |-> "runNext"]]
                              ELSE /\ stack' = [stack EXCEPT ![d] = stk]
                                   /\ ctl' = [ctl EXCEPT ![d] =
                                        [op |-> "applyRouteOptions", srv |-> s,
                                         route |-> matchResult.route,
                                         handler |-> matchResult.handler]]
  /\ UNCHANGED <<config, limiter, result>>

\* Mutant of Middleware: the chain goes on behind a middleware that answered
\* without calling next().
MiddlewareNeverShortCircuits(d, does, status) ==
  /\ ctl[d].op = "middleware"
  /\ LET c == ctl[d]
     IN  /\ Log(d, [ev |-> "middleware", srv |-> c.srv, scope |-> c.scope,
                    index |-> c.index, does |-> does])
         /\ CASE does \in {"next", "yield", "respond"} ->
                   /\ stack' = [stack EXCEPT ![d] = Append(@,
                        [kind |-> "middleware", srv |-> c.srv, scope |-> c.scope,
                         index |-> c.index])]
                   /\ ctl' = [ctl EXCEPT ![d] =
                        [op |-> IF c.scope = "global" THEN "runMiddleware"
                                ELSE "runNext"]]
              [] does = "throw" ->
                   /\ ctl' = [ctl EXCEPT ![d] =
                        [op |-> "throw", error |-> "middleware failed"]]
                   /\ UNCHANGED stack
  /\ UNCHANGED <<config, limiter, result>>

\* A user middleware (global or route-local) is invoked with (req, next): it
\* awaits next(), returns a response of its own, or throws.  With "yield" it
\* awaits something else before it calls next(), so that what next() calls
\* runs on a call stack of its own.
Middleware(d, does, status) ==
  /\ ctl[d].op = "middleware"
  /\ LET c == ctl[d]
     IN  /\ Log(d, [ev |-> "middleware", srv |-> c.srv, scope |-> c.scope,
                    index |-> c.index, does |-> does])
         /\ CASE does \in {"next", "yield"} ->
                   /\ stack' = [stack EXCEPT ![d] = Append(@,
                        [kind |-> "middleware", srv |-> c.srv, scope |-> c.scope,
                         index |-> c.index])]
                   /\ ctl' = [ctl EXCEPT ![d] =
                        [op |-> IF c.scope = "global" THEN "runMiddleware"
                                ELSE "runNext"]]
              [] does = "respond" ->
                   /\ ctl' = [ctl EXCEPT ![d] =
                        [op |-> "return",
                         response |-> UserResponse(status, "middleware")]]
                   /\ UNCHANGED stack
              [] does = "throw" ->
                   /\ ctl' = [ctl EXCEPT ![d] =
                        [op |-> "throw", error |-> "middleware failed"]]
                   /\ UNCHANGED stack
  /\ UNCHANGED <<config, limiter, result>>

\* The marker the middleware registered at a position appends to x-order.
Markers == <<"A", "B", "C", "D">>

\* The next() a user middleware awaits has resolved: the middleware observes
\* the response, then returns it, appends its marker to the x-order header
\* and returns it, or throws.
MiddlewareResume(d, does) ==
  /\ ctl[d].op = "return"
  /\ stack[d] # <<>>
  /\ Top(stack[d]).kind = "middleware"
  /\ LET f == Top(stack[d])
     IN  /\ Log(d, [ev |-> "after", srv |-> f.srv, scope |-> f.scope,
                    index |-> f.index, status |-> ctl[d].response.status,
                    does |-> does])
         /\ ctl' = [ctl EXCEPT ![d] =
              CASE does = "return" -> @
                [] does = "append" ->
                     [@ EXCEPT !.response.headers =
                        AppendHeader(@, "x-order", <<Markers[f.index]>>)]
                [] does = "throw"  ->
                     [op |-> "throw", error |-> "middleware failed"]]
  /\ stack' = [stack EXCEPT ![d] = Pop(@)]
  /\ UNCHANGED <<config, limiter, result>>

\* The next() a user middleware awaits has resolved and the middleware calls
\* next() a second time: the continuation it was given (runMiddleware,
\* mod.ts:192, or runNext, mod.ts:271) runs again from the index the first
\* call left.  A dispatch sees one such second call.
MiddlewareNextAgain(d) ==
  /\ ctl[d].op = "return"
  /\ stack[d] # <<>>
  /\ Top(stack[d]).kind = "middleware"
  /\ \A i \in 1..Len(trace[d]) :
       ~(trace[d][i].ev = "after" /\ trace[d][i].does = "next")
  /\ LET f == Top(stack[d])
     IN  /\ Log(d, [ev |-> "after", srv |-> f.srv, scope |-> f.scope,
                    index |-> f.index, status |-> ctl[d].response.status,
                    does |-> "next"])
         /\ ctl' = [ctl EXCEPT ![d] =
              [op |-> IF f.scope = "global" THEN "runMiddleware" ELSE "runNext"]]
  /\ UNCHANGED <<config, limiter, stack, result>>

\* The next() a user middleware awaits has rejected: the middleware does not
\* catch, so its own promise rejects with the same error.
MiddlewareReject(d) ==
  /\ ctl[d].op = "throw"
  /\ stack[d] # <<>>
  /\ Top(stack[d]).kind = "middleware"
  /\ stack' = [stack EXCEPT ![d] = Pop(@)]
  /\ UNCHANGED <<config, limiter, ctl, trace, result>>

\* The middleware route() registers (mod.ts:106-134), up to the call of the
\* child's handler or of next().
RouteMiddleware(d) ==
  /\ ctl[d].op = "route"
  /\ LET c        == ctl[d]
         f        == stack[d][Innermost(stack[d], "handler")]
         mw       == middlewares[c.srv][c.index]
         pathname == f.req.pathname
         rest     == Slice(pathname, Len(mw.prefix))
         newPathname == IF rest = <<>> THEN <<"/">> ELSE rest
     IN  \E newUrl \in {ParseUrl(newPathname \o f.req.search, f.req.host)} :
         \E newReq \in {[f.req EXCEPT !.host = newUrl.host,
                                      !.pathname = newUrl.pathname,
                                      !.search = newUrl.search]} :
         LET e == EnterHandler(
                    Append(stack[d], [kind |-> "route", srv |-> c.srv,
                                      index |-> c.index]),
                    mw.instance, newReq)
         IN  IF StartsWith(pathname, mw.prefix)
             THEN IF newUrl.ok
                  THEN /\ stack' = [stack EXCEPT ![d] = e.stack]
                       /\ ctl' = [ctl EXCEPT ![d] = e.ctl]
                       /\ Log(d, [ev |-> "route", srv |-> c.srv, index |-> c.index,
                                  prefix |-> mw.prefix, instance |-> mw.instance,
                                  from |-> f.req, req |-> newReq])
                  ELSE /\ ctl' = [ctl EXCEPT ![d] =
                            [op |-> "throw", error |-> "Invalid URL"]]
                       /\ UNCHANGED <<stack, trace>>
             ELSE /\ ctl' = [ctl EXCEPT ![d] = [op |-> "runMiddleware"]]
                  /\ UNCHANGED <<stack, trace>>
  /\ UNCHANGED <<config, limiter, result>>

\* The mounts a dispatch is inside of: the calls of a child's handler()
\* (mod.ts:122) that have not returned.
MountDepth(d) ==
  Cardinality({i \in 1..Len(stack[d]) : stack[d][i].kind = "route"})

\* The call of the mount exhausts the call stack: handler(), runMiddleware
\* and the mount have called one another depth mounts deep without yielding
\* (mod.ts:216, 192, 122), and the RangeError rejects the middleware
\* runMiddleware awaits.
StackOverflow(d, depth) ==
  /\ ctl[d].op = "route"
  /\ MountDepth(d) >= depth
  /\ \A i \in 1..Len(trace[d]) :
       ~(trace[d][i].ev = "middleware" /\ trace[d][i].does = "yield")
  /\ ctl' = [ctl EXCEPT ![d] =
       [op |-> "throw", error |-> "Maximum call stack size exceeded"]]
  /\ UNCHANGED <<config, limiter, stack, trace, result>>

\* Mutant of RouteResume: every error status of the child falls through to
\* next(), not the 404 alone.
RouteResumeErrorsFallThrough(d) ==
  /\ ctl[d].op = "return"
  /\ stack[d] # <<>>
  /\ Top(stack[d]).kind = "route"
  /\ stack' = [stack EXCEPT ![d] = Pop(@)]
  /\ ctl' = [ctl EXCEPT ![d] =
       IF ctl[d].response.status < 400 THEN @ ELSE [op |-> "runMiddleware"]]
  /\ Log(d, [ev |-> "routed", srv |-> Top(stack[d]).srv,
             index |-> Top(stack[d]).index, status |-> ctl[d].response.status,
             response |-> ctl[d].response])
  /\ UNCHANGED <<config, limiter, result>>

\* Mutant of RouteResume: the child's response is returned whatever its status.
RouteResumeAlways(d) ==
  /\ ctl[d].op = "return"
  /\ stack[d] # <<>>
  /\ Top(stack[d]).kind = "route"
  /\ stack' = [stack EXCEPT ![d] = Pop(@)]
  /\ Log(d, [ev |-> "routed", srv |-> Top(stack[d]).srv,
             index |-> Top(stack[d]).index, status |-> ctl[d].response.status,
             response |-> ctl[d].response])
  /\ UNCHANGED <<config, limiter, ctl, result>>

\* The child's handler has resolved (mod.ts:121-124, 133): any status but
\* 404 is returned, 404 falls through to next().
RouteResume(d) ==
  /\ ctl[d].op = "return"
  /\ stack[d] # <<>>
  /\ Top(stack[d]).kind = "route"
  /\ stack' = [stack EXCEPT ![d] = Pop(@)]
  /\ ctl' = [ctl EXCEPT ![d] =
       IF ctl[d].response.status # 404 THEN @ ELSE [op |-> "runMiddleware"]]
  /\ Log(d, [ev |-> "routed", srv |-> Top(stack[d]).srv,
             index |-> Top(stack[d]).index, status |-> ctl[d].response.status,
             response |-> ctl[d].response])
  /\ UNCHANGED <<config, limiter, result>>

\* Mutant of RunNext: the route-local chain is walked from its last
\* middleware.
RunNextReversed(d) ==
  /\ ctl[d].op = "runNext"
  /\ LET pi == Innermost(stack[d], "processRouteMiddleware")
         p  == stack[d][pi]
         hf == stack[d][Innermost(stack[d], "handler")]
         ms == routes[p.srv][hf.req.method][p.route].middleware
     IN  IF p.middlewareIndex < Len(ms)
         THEN /\ stack' = [stack EXCEPT ![d][pi].middlewareIndex = @ + 1]
              /\ ctl' = [ctl EXCEPT ![d] =
                   [op |-> "middleware", srv |-> p.srv, scope |-> "local",
                    index |-> Len(ms) - p.middlewareIndex]]
         ELSE /\ ctl' = [ctl EXCEPT ![d] =
                   [op |-> "handler", srv |-> p.srv, handler |-> p.finalHandler]]
              /\ UNCHANGED stack
  /\ UNCHANGED <<config, limiter, trace, result>>

\* runNext() of processRouteMiddleware (mod.ts:267-272).
RunNext(d) ==
  /\ ctl[d].op = "runNext"
  /\ LET pi == Innermost(stack[d], "processRouteMiddleware")
         p  == stack[d][pi]
         hf == stack[d][Innermost(stack[d], "handler")]
         ms == routes[p.srv][hf.req.method][p.route].middleware
     IN  IF p.middlewareIndex < Len(ms)
         THEN /\ stack' = [stack EXCEPT ![d][pi].middlewareIndex = @ + 1]
              /\ ctl' = [ctl EXCEPT ![d] =
                   [op |-> "middleware", srv |-> p.srv, scope |-> "local",
                    index |-> p.middlewareIndex + 1]]
         ELSE /\ ctl' = [ctl EXCEPT ![d] =
                   [op |-> "handler", srv |-> p.srv, handler |-> p.finalHandler]]
              /\ UNCHANGED stack
  /\ UNCHANGED <<config, limiter, trace, result>>

\* The promise processRouteMiddleware returned settles: runMiddleware returns
\* it, so the response or the error goes on to the caller of runMiddleware.
ProcessRouteMiddlewareSettle(d) ==
  /\ ctl[d].op \in {"return", "throw"}
  /\ stack[d] # <<>>
  /\ Top(stack[d]).kind = "processRouteMiddleware"
  /\ stack' = [stack EXCEPT ![d] = Pop(@)]
  /\ UNCHANGED <<config, limiter, ctl, trace, result>>

\* applyRouteOptions(clonedReq, route, req) (mod.ts:277-312); parsed says
\* whether the body decodes, valid what the validate predicate does.
ApplyRouteOptions(d, parsed, valid) ==
  /\ ctl[d].op = "applyRouteOptions"
  /\ LET c    == ctl[d]
         hi   == Innermost(stack[d], "handler")
         f    == stack[d][hi]
         o    == IF c.route = 0 THEN NoConfig.options
                 ELSE routes[c.srv][f.req.method][c.route].options
         json == o.parseJson /\ f.req.contentType = "application/json"
         form == o.parseUrlEncoded
                 /\ f.req.contentType = "application/x-www-form-urlencoded"
         call == [op |-> "handler", srv |-> c.srv, handler |-> c.handler]
         parsedBody == IF form THEN "form" ELSE IF json THEN "json" ELSE f.body
     IN  IF (json \/ form) /\ ~parsed
         THEN /\ ctl' = [ctl EXCEPT ![d] =
                   [op |-> "throw", error |-> "body cannot be parsed"]]
              /\ Log(d, [ev |-> "parse", srv |-> c.srv, route |-> c.route,
                         parsed |-> FALSE])
              /\ UNCHANGED stack
         ELSE /\ stack' = [stack EXCEPT ![d][hi].body = parsedBody]
              /\ IF o.validate
                 THEN /\ Log(d, [ev |-> "validate", srv |-> c.srv,
                                 route |-> c.route, valid |-> valid])
                      /\ ctl' = [ctl EXCEPT ![d] =
                           CASE valid = "true"  -> call
                             [] valid = "false" ->
                                  [op |-> "throw", error |-> "Validation failed"]
                             [] valid = "throw" ->
                                  [op |-> "throw", error |-> "validate failed"]]
                 ELSE /\ ctl' = [ctl EXCEPT ![d] = call]
                      /\ UNCHANGED trace
  /\ UNCHANGED <<config, limiter, result>>

\* The route handler (or the wildcard handler) is invoked with the request
\* context: it returns a response or throws.
RouteHandler(d, does, status) ==
  /\ ctl[d].op = "handler"
  /\ LET f == stack[d][Innermost(stack[d], "handler")]
     IN  Log(d, [ev |-> "handler", srv |-> ctl[d].srv, handler |-> ctl[d].handler,
                 method |-> f.req.method, pathname |-> f.req.pathname,
                 search |-> f.req.search,
                 params |-> f.params, query |-> f.query, body |-> f.body,
                 does |-> does])
  /\ ctl' = [ctl EXCEPT ![d] =
       IF does = "return"
       THEN [op |-> "return", response |-> UserResponse(status, "handler")]
       ELSE [op |-> "throw", error |-> "handler failed"]]
  /\ UNCHANGED <<config, limiter, stack, result>>

\* The response to deliver once a handler() activation is left: to the
\* transport when it was the outermost call, else to the awaiting caller.
Leave(d, response) ==
  /\ stack' = [stack EXCEPT ![d] = Pop(@)]
  /\ IF Len(stack[d]) = 1
     THEN /\ result' = [result EXCEPT ![d] = response]
          /\ ctl' = [ctl EXCEPT ![d] = Done]
     ELSE /\ ctl' = [ctl EXCEPT ![d] = [op |-> "return", response |-> response]]
          /\ UNCHANGED result

\* return await runMiddleware() (mod.ts:216): handler() resolves.
HandlerReturn(d) ==
  /\ ctl[d].op = "return"
  /\ stack[d] # <<>>
  /\ Top(stack[d]).kind = "handler"
  /\ Leave(d, ctl[d].response)
  /\ UNCHANGED <<config, limiter, trace>>

\* Mutant of HandlerCatch: the configured errorHandler is never consulted.
HandlerCatchAlways500(d, status) ==
  /\ ctl[d].op = "throw"
  /\ stack[d] # <<>>
  /\ Top(stack[d]).kind = "handler"
  /\ LET f == Top(stack[d])
     IN  /\ Log(d, [ev |-> "catch", srv |-> f.srv, error |-> ctl[d].error,
                    req |-> f.req, errorHandler |-> FALSE])
         /\ Leave(d, ErrorResponse("Internal Server Error", 500))
  /\ UNCHANGED <<config, limiter>>

\* catch (error) of handler() (mod.ts:217-222): the configured errorHandler
\* is invoked with the error and the request context and answers, or a 500
\* response does.
HandlerCatch(d, status) ==
  /\ ctl[d].op = "throw"
  /\ stack[d] # <<>>
  /\ Top(stack[d]).kind = "handler"
  /\ LET f == Top(stack[d])
     IN  /\ Log(d, [ev |-> "catch", srv |-> f.srv, error |-> ctl[d].error,
                    req |-> f.req, errorHandler |-> options[f.srv].errorHandler])
         /\ IF options[f.srv].errorHandler
            THEN Leave(d, UserResponse(status, "errorHandler"))
            ELSE Leave(d, ErrorResponse("Internal Server Error", 500))
  /\ UNCHANGED <<config, limiter>>

----------------------------------------------------------------------------
(* Inputs and bounds *)

MaxMiddlewares == 2   \* global middleware registered on one server
MaxRoutes      == 2   \* routes registered under Spec and SpecMount
MaxRoutingRoutes == 3 \* routes registered under SpecRouting
MaxChain       == 3   \* global middleware and mounts registered under SpecChain
MaxDepth       == 3   \* mounts one dispatch descends through under SpecNest

Request(method, pathname, search, contentLength, contentType) ==
  [method |-> method, host |-> <<"h">>, pathname |-> pathname, search |-> search,
   contentLength |-> contentLength, contentType |-> contentType,
   origin |-> Null]

Get(pathname) == Request("GET", pathname, <<>>, <<>>, Null)

Validating == [parseJson |-> FALSE, parseUrlEncoded |-> FALSE, validate |-> TRUE]
Parsing    == [parseJson |-> TRUE, parseUrlEncoded |-> TRUE, validate |-> TRUE]

\* The configs a route is registered with.
RouteConfigs ==
  { NoConfig,
    [middleware |-> <<UserMiddleware>>, options |-> NoConfig.options],
    [middleware |-> <<>>, options |-> Validating],
    [middleware |-> <<UserMiddleware>>, options |-> Validating],
    [middleware |-> <<>>, options |-> Parsing],
    [middleware |-> <<UserMiddleware, UserMiddleware>>, options |-> Parsing] }

\* The options a server is constructed with.
ServerOptions ==
  { [maxBodySize |-> mb, errorHandler |-> eh, defaultHeaders |-> NoHeaders] :
      mb \in {<<>>, <<5>>}, eh \in BOOLEAN }

NoOptions == [maxBodySize |-> <<>>, errorHandler |-> FALSE, defaultHeaders |-> NoHeaders]

\* The requests dispatched under Spec.
Requests ==
  { Get(<<"/", "a">>),
    Get(<<"/", "b">>),
    Request("GET", <<"/", "a">>, <<>>, <<"6">>, "application/json"),
    Request("GET", <<"/", "a">>, <<>>, <<"1", "0", "4", "8", "5", "7", "7">>, Null),
    Request("GET", <<"/", "a">>, <<"?", "q", "=", "1">>, <<"5">>,
            "application/x-www-form-urlencoded") }

\* What a user callback may do, and the statuses of the responses it builds.
MiddlewareDoes == {"next", "respond", "throw"}
ResumeDoes     == {"return", "throw"}
HandlerDoes    == {"return", "throw"}
ValidateDoes   == {"true", "false", "throw"}

----------------------------------------------------------------------------
(* rateLimit (src/middleware.ts): a middleware with a Map of its own, keyed
   by client, that counts the requests of a window. *)

MaxLimit == 2
MaxClock == 3
MaxCalls == 3

WindowMs == {1, 2}

\* The values of the x-forwarded-for header: absent (headers.get returns
\* null), present and empty, present with an address.
Forwarded  == {Null, "", "a"}
ClientKeys == {"unknown", "a"}

NoRequestData == <<>>

\* req.headers.get("x-forwarded-for") || "unknown": null and the empty
\* string are both falsy.
ClientKey(forwarded) ==
  IF forwarded = Null \/ forwarded = "" THEN "unknown" ELSE forwarded

\* Mutant of RateLimit: the window is over at resetTime, not after it.
RateLimitResetAtBoundary(store, opts, ip, now) ==
  LET requestData == store[ip]
      fresh == [store EXCEPT ![ip] =
                  <<[count |-> 1, resetTime |-> now + opts.windowMs]>>]
  IN  IF requestData # NoRequestData
      THEN IF now >= requestData[1].resetTime
           THEN [requests |-> fresh, does |-> "next"]
           ELSE IF requestData[1].count >= opts.max
           THEN [requests |-> store, does |-> "429"]
           ELSE [requests |-> [store EXCEPT ![ip][1].count = @ + 1],
                 does |-> "next"]
      ELSE [requests |-> fresh, does |-> "next"]

\* The body of the middleware rateLimit returns: the Map after the call and
\* whether the call went on to next() or answered 429.
RateLimit(store, opts, ip, now) ==
  LET requestData == store[ip]
      fresh == [store EXCEPT ![ip] =
                  <<[count |-> 1, resetTime |-> now + opts.windowMs]>>]
  IN  IF requestData # NoRequestData
      THEN IF now > requestData[1].resetTime
           THEN [requests |-> fresh, does |-> "next"]
           ELSE IF requestData[1].count >= opts.max
           THEN [requests |-> store, does |-> "429"]
           ELSE [requests |-> [store EXCEPT ![ip][1].count = @ + 1],
                 does |-> "next"]
      ELSE [requests |-> fresh, does |-> "next"]

\* rateLimit(options): a new, empty Map.
InitLimiter(opts) ==
  /\ rateLimitOptions = opts
  /\ requests = [k \in ClientKeys |-> NoRequestData]
  /\ clock = 0
  /\ calls = <<>>

\* One call of the middleware, for a request with the given header.
RateLimitCall(forwarded) ==
  /\ Len(calls) < MaxCalls
  /\ LET ip  == ClientKey(forwarded)
         now == clock
         r   == RateLimit(requests, rateLimitOptions, ip, now)
     IN  /\ requests' = r.requests
         /\ calls' = Append(calls, [forwarded |-> forwarded, ip |-> ip,
                                    now |-> now, does |-> r.does])
  /\ UNCHANGED <<config, run, rateLimitOptions, clock>>

\* Time passes between two calls.
Tick ==
  /\ clock < MaxClock
  /\ clock' = clock + 1
  /\ UNCHANGED <<config, run, rateLimitOptions, requests, calls>>

----------------------------------------------------------------------------

\* No server has anything registered and no call of handler() is in flight.
InitServers(appOptions, subOptions) ==
  /\ middlewares = [s \in Servers |-> <<>>]
  /\ routes = [s \in Servers |-> [m \in Methods |-> <<>>]]
  /\ wildcardRoutes = [s \in Servers |-> [m \in Methods |-> NoHandler]]
  /\ options = [s \in Servers |->
                  XebecServer(IF s = "app" THEN appOptions ELSE subOptions)]
  /\ handlerCount = 0
  /\ stack = [d \in Dispatch |-> <<>>]
  /\ ctl = [d \in Dispatch |-> Idle]
  /\ trace = [d \in Dispatch |-> <<>>]
  /\ result = [d \in Dispatch |-> UserResponse(0, Null)]

InitWith(appOptions, subOptions) ==
  /\ InitServers(appOptions, subOptions)
  /\ InitLimiter([windowMs |-> 1, max |-> 1])

\* Registration happens at setup, before the first request is dispatched.
Setup == \A d \in Dispatch : ctl[d] = Idle

----------------------------------------------------------------------------
(* Spec: one server, its global chain, route-local chains, route options,
   the body size check and the error policy. *)

Init == \E o \in ServerOptions : InitWith(o, NoOptions)

Register ==
  /\ Setup
  /\ \/ /\ Len(middlewares["app"]) < MaxMiddlewares
        /\ Use("app", UserMiddleware)
     \/ /\ handlerCount < MaxRoutes
        /\ \E cfg \in RouteConfigs : GET("app", <<"/", "a">>, cfg)
     \/ /\ handlerCount < MaxRoutes
        /\ GET("app", <<"*">>, NoConfig)

Serve(d) ==
  \/ \E req \in Requests : Handler(d, "app", req)
  \/ RunMiddleware(d)
  \/ \E does \in MiddlewareDoes : Middleware(d, does, 403)
  \/ \E does \in ResumeDoes : MiddlewareResume(d, does)
  \/ MiddlewareReject(d)
  \/ RunNext(d)
  \/ ProcessRouteMiddlewareSettle(d)
  \/ \E parsed \in BOOLEAN, valid \in ValidateDoes : ApplyRouteOptions(d, parsed, valid)
  \/ \E does \in HandlerDoes : RouteHandler(d, does, 200)
  \/ HandlerReturn(d)
  \/ HandlerCatch(d, 418)

Next == Register \/ Serve("d1")

Spec == Init /\ [][Next]_vars

----------------------------------------------------------------------------
(* SpecRouting: one server without middleware; patterns and paths are drawn
   widely, every handler returns. *)

Templates ==
  { <<"/", "a">>,
    <<"/", ":", "x">>,
    <<"/", ":", "x", "/", ":", "y">>,
    <<"/", ":", "i", "/", ":", "i">>,
    <<"/", "a", "/", "*">>,
    <<"*">> }

PostTemplates == { <<"/", "a">>, <<"*">> }

RoutingRequests ==
  { Get(<<"/", "a">>),
    Get(<<"/", "b">>),
    Get(<<"/", "a", "/">>),
    Get(<<"/", "a", "/", "b">>),
    Get(<<"/", "a", "/", "b", "/", "c">>),
    Request("GET", <<"/", "b", "/", "c">>, <<"?", "q", "=", "1">>, <<>>, Null),
    Request("POST", <<"/", "a">>, <<>>, <<>>, Null),
    Request("POST", <<"/", "b">>, <<"?", "q", "=", "1">>, <<>>, Null) }

InitRouting == InitWith(NoOptions, NoOptions)

RegisterRouting ==
  /\ Setup
  /\ handlerCount < MaxRoutingRoutes
  /\ \/ \E path \in Templates : GET("app", path, NoConfig)
     \/ \E path \in PostTemplates : POST("app", path, NoConfig)

ServeRouting(d) ==
  \/ \E req \in RoutingRequests : Handler(d, "app", req)
  \/ RunMiddleware(d)
  \/ ApplyRouteOptions(d, TRUE, "true")
  \/ RouteHandler(d, "return", 200)
  \/ HandlerReturn(d)

NextRouting == RegisterRouting \/ ServeRouting("d1")

SpecRouting == InitRouting /\ [][NextRouting]_vars

----------------------------------------------------------------------------
(* SpecMount: a parent with a child mounted under a prefix. *)

Prefixes == { <<"/", "f">>, <<"f">> }

MountRequests ==
  { Get(<<"/", "f", "/", "a">>),
    Get(<<"/", "f">>),
    Get(<<"/", "a">>),
    Get(<<"/", "f", "/", "/", "c", "/", "a">>),
    Get(<<"/", "f", "/", "/">>),
    Request("GET", <<"/", "f", "/", "a">>, <<"?", "q", "=", "1">>, <<"6">>, Null),
    Request("POST", <<"/", "f">>, <<"?", "q", "=", "1">>, <<>>, Null) }

InitMount ==
  \E eh \in BOOLEAN, o \in {NoOptions, [NoOptions EXCEPT !.maxBodySize = <<5>>,
                                                       !.errorHandler = TRUE]} :
     InitWith([NoOptions EXCEPT !.errorHandler = eh], o)

RegisterMount ==
  /\ Setup
  /\ \/ /\ Len(middlewares["app"]) < MaxMiddlewares
        /\ Use("app", UserMiddleware)
     \/ /\ Len(middlewares["app"]) < MaxMiddlewares
        /\ \E prefix \in Prefixes : Route("app", prefix, "sub")
     \/ /\ handlerCount < MaxRoutes
        /\ \/ \E path \in {<<"/", "f", "/", "a">>, <<"*">>} :
                 GET("app", path, NoConfig)
           \/ \E path \in {<<"/", "a">>, <<"/">>} : GET("sub", path, NoConfig)
           \/ POST("sub", <<"/">>, NoConfig)

ServeMount(d) ==
  \/ \E req \in MountRequests : Handler(d, "app", req)
  \/ RunMiddleware(d)
  \/ \E does \in {"next", "respond"} : Middleware(d, does, 403)
  \/ MiddlewareResume(d, "return")
  \/ MiddlewareReject(d)
  \/ RouteMiddleware(d)
  \/ RouteResume(d)
  \/ ApplyRouteOptions(d, TRUE, "true")
  \/ \E does \in HandlerDoes, status \in {200, 404} : RouteHandler(d, does, status)
  \/ HandlerReturn(d)
  \/ HandlerCatch(d, 418)

NextMount == RegisterMount \/ ServeMount("d1")

SpecMount == InitMount /\ [][NextMount]_vars

----------------------------------------------------------------------------
(* SpecHeaders: one server constructed with defaultHeaders; its middleware
   may append a marker to a response header on the way out. *)

DefaultHeaders == [NoHeaders EXCEPT !["x-default"] = <<"1">>]

HeaderRequests ==
  { Get(<<"/", "a">>),
    Get(<<"/", "b">>),
    Request("GET", <<"/", "a">>, <<>>, <<"6">>, Null) }

InitHeaders ==
  \E eh \in BOOLEAN :
     InitWith([maxBodySize |-> <<5>>, errorHandler |-> eh,
               defaultHeaders |-> DefaultHeaders], NoOptions)

RegisterHeaders ==
  /\ Setup
  /\ \/ /\ Len(middlewares["app"]) < MaxMiddlewares
        /\ Use("app", UserMiddleware)
     \/ /\ handlerCount < MaxRoutes
        /\ GET("app", <<"/", "a">>, NoConfig)

ServeHeaders(d) ==
  \/ \E req \in HeaderRequests : Handler(d, "app", req)
  \/ RunMiddleware(d)
  \/ \E does \in {"next", "respond"} : Middleware(d, does, 403)
  \/ \E does \in {"append", "return", "throw"} : MiddlewareResume(d, does)
  \/ MiddlewareReject(d)
  \/ ApplyRouteOptions(d, TRUE, "true")
  \/ \E does \in HandlerDoes : RouteHandler(d, does, 200)
  \/ HandlerReturn(d)
  \/ HandlerCatch(d, 418)

NextHeaders == RegisterHeaders \/ ServeHeaders("d1")

SpecHeaders == InitHeaders /\ [][NextHeaders]_vars

----------------------------------------------------------------------------
(* SpecChain: a parent whose global chain mixes middleware and mounts of one
   child under the prefix /f; nothing throws. *)

ChainRequests ==
  { Get(<<"/", "f", "/", "a">>),
    Get(<<"/", "f", "/", "b">>),
    Get(<<"/", "f", "a">>),
    Get(<<"/", "a">>) }

InitChain == InitWith(NoOptions, NoOptions)

RegisterChain ==
  /\ Setup
  /\ \/ /\ Len(middlewares["app"]) < MaxChain
        /\ Use("app", UserMiddleware)
     \/ /\ Len(middlewares["app"]) < MaxChain
        /\ Route("app", <<"/", "f">>, "sub")
     \/ /\ handlerCount < MaxRoutes
        /\ GET("sub", <<"/", "a">>, NoConfig)
     \/ /\ handlerCount < MaxRoutes
        /\ GET("app", <<"*">>, NoConfig)

ServeChain(d) ==
  \/ \E req \in ChainRequests : Handler(d, "app", req)
  \/ RunMiddleware(d)
  \/ \E does \in {"next", "respond"} : Middleware(d, does, 403)
  \/ MiddlewareResume(d, "return")
  \/ RouteMiddleware(d)
  \/ RouteResume(d)
  \/ ApplyRouteOptions(d, TRUE, "true")
  \/ RouteHandler(d, "return", 200)
  \/ HandlerReturn(d)

NextChain == RegisterChain \/ ServeChain("d1")

SpecChain == InitChain /\ [][NextChain]_vars

----------------------------------------------------------------------------
(* SpecConcurrent: two calls of handler() in flight on one server, their
   steps interleaved at every await; the middleware and handlers are
   stateless: they await next() and return, whatever the request. *)

ConcurrentTemplates == { <<"/", "a">>, <<"/", ":", "x">>, <<"*">> }

ConcurrentRequests ==
  { Request("GET", <<"/", "a">>, <<"?", "q", "=", "1">>, <<>>, Null),
    Get(<<"/", "b">>),
    Request("GET", <<"/", "a">>, <<>>, <<"1", "0", "4", "8", "5", "7", "7">>, Null) }

InitConcurrent == InitWith(NoOptions, NoOptions)

RegisterConcurrent ==
  /\ Setup
  /\ \/ /\ Len(middlewares["app"]) < MaxMiddlewares
        /\ Use("app", UserMiddleware)
     \/ /\ handlerCount < MaxRoutes
        /\ \E path \in ConcurrentTemplates : GET("app", path, NoConfig)

ServeConcurrent(d) ==
  \/ \E req \in ConcurrentRequests : Handler(d, "app", req)
  \/ RunMiddleware(d)
  \/ Middleware(d, "next", 403)
  \/ MiddlewareResume(d, "return")
  \/ ApplyRouteOptions(d, TRUE, "true")
  \/ RouteHandler(d, "return", 200)
  \/ HandlerReturn(d)

NextConcurrent == RegisterConcurrent \/ \E d \in Dispatch : ServeConcurrent(d)

SpecConcurrent == InitConcurrent /\ [][NextConcurrent]_vars

----------------------------------------------------------------------------
(* SpecRateLimit: the rateLimit middleware called for requests of several
   clients as time passes. *)

InitRateLimit ==
  /\ \E w \in WindowMs, m \in 0..MaxLimit :
        InitLimiter([windowMs |-> w, max |-> m])
  /\ InitServers(NoOptions, NoOptions)

NextRateLimit ==
  \/ \E forwarded \in Forwarded : RateLimitCall(forwarded)
  \/ Tick

SpecRateLimit == InitRateLimit /\ [][NextRateLimit]_vars

----------------------------------------------------------------------------
(* SpecSize: the body size check, for Content-Length values around the
   configured and the default limit, signed values and values that are not
   numbers. *)

ContentLengths ==
  { <<>>, <<"0">>, <<"4">>, <<"5">>, <<"6">>, <<"0", "6">>, <<"1", "0">>,
    <<"-", "6">>, <<"+", "6">>, <<"6", "x">>, <<"x">>,
    <<"1", "0", "4", "8", "5", "7", "6">>, <<"1", "0", "4", "8", "5", "7", "7">> }

SizeRequests ==
  { Request("GET", <<"/", "a">>, <<>>, cl, Null) : cl \in ContentLengths }

InitSize ==
  \E mb \in {<<>>, <<0>>, <<5>>} :
     InitWith([NoOptions EXCEPT !.maxBodySize = mb], NoOptions)

RegisterSize ==
  /\ Setup
  /\ \/ /\ Len(middlewares["app"]) < MaxMiddlewares
        /\ Use("app", UserMiddleware)
     \/ /\ handlerCount < MaxRoutes
        /\ GET("app", <<"/", "a">>, NoConfig)

ServeSize(d) ==
  \/ \E req \in SizeRequests : Handler(d, "app", req)
  \/ RunMiddleware(d)
  \/ Middleware(d, "next", 403)
  \/ MiddlewareResume(d, "return")
  \/ ApplyRouteOptions(d, TRUE, "true")
  \/ RouteHandler(d, "return", 200)
  \/ HandlerReturn(d)

NextSize == RegisterSize \/ ServeSize("d1")

SpecSize == InitSize /\ [][NextSize]_vars

----------------------------------------------------------------------------
(* SpecNest: servers mounted into one another, themselves included.  A
   descent through mounts that does not shorten the path has no end: it is
   followed MaxDepth mounts deep.  When no step of it yields, the call stack
   runs out (at MaxDepth mounts, here) and the RangeError is caught like any
   other error; when a middleware awaits before it calls next(), every level
   starts on a fresh stack and nothing stops the descent.  The steps of a
   dispatch are continuations the event loop runs when they are ready, hence
   the weak fairness on them. *)

NestPrefixes == { <<"/">>, <<"/", "f">> }

NestRequests == { Get(<<"/", "f", "/", "a">>), Get(<<"/", "a">>) }

InitNest == InitWith(NoOptions, NoOptions)

RegisterNest ==
  /\ Setup
  /\ \/ /\ Len(middlewares["app"]) < MaxMiddlewares
        /\ Use("app", UserMiddleware)
     \/ /\ Len(middlewares["app"]) < MaxMiddlewares
        /\ \E prefix \in NestPrefixes, instance \in Servers :
             Route("app", prefix, instance)
     \/ /\ Len(middlewares["sub"]) < 1
        /\ Route("sub", <<"/">>, "app")
     \/ /\ handlerCount < MaxRoutes
        /\ GET("sub", <<"/", "a">>, NoConfig)

\* The mount is entered while the descent is followed.
Descend(d) == MountDepth(d) < MaxDepth /\ RouteMiddleware(d)

ContinueNest(d) ==
  \/ \E req \in NestRequests : Handler(d, "app", req)
  \/ RunMiddleware(d)
  \/ \E does \in {"next", "yield"} : Middleware(d, does, 403)
  \/ MiddlewareResume(d, "return")
  \/ MiddlewareReject(d)
  \/ Descend(d)
  \/ StackOverflow(d, MaxDepth)
  \/ RouteResume(d)
  \/ ApplyRouteOptions(d, TRUE, "true")
  \/ RouteHandler(d, "return", 200)
  \/ HandlerReturn(d)
  \/ HandlerCatch(d, 418)

NextNest == RegisterNest \/ ContinueNest("d1")

SpecNest == InitNest /\ [][NextNest]_vars /\ WF_vars(ContinueNest("d1"))

----------------------------------------------------------------------------
(* SpecTwice: one server whose middleware, global or route-local, may call
   the next() it was given a second time after the first call resolved. *)

TwiceConfigs ==
  { NoConfig, [middleware |-> <<UserMiddleware>>, options |-> NoConfig.options] }

TwiceRequests == { Get(<<"/", "a">>), Get(<<"/", "b">>) }

InitTwice == InitWith(NoOptions, NoOptions)

RegisterTwice ==
  /\ Setup
  /\ \/ /\ Len(middlewares["app"]) < MaxMiddlewares
        /\ Use("app", UserMiddleware)
     \/ /\ handlerCount < MaxRoutes
        /\ \E cfg \in TwiceConfigs : GET("app", <<"/", "a">>, cfg)

ServeTwice(d) ==
  \/ \E req \in TwiceRequests : Handler(d, "app", req)
  \/ RunMiddleware(d)
  \/ Middleware(d, "next", 403)
  \/ MiddlewareResume(d, "return")
  \/ MiddlewareNextAgain(d)
  \/ RunNext(d)
  \/ ProcessRouteMiddlewareSettle(d)
  \/ ApplyRouteOptions(d, TRUE, "true")
  \/ RouteHandler(d, "return", 200)
  \/ HandlerReturn(d)

NextTwice == RegisterTwice \/ ServeTwice("d1")

SpecTwice == InitTwice /\ [][NextTwice]_vars

----------------------------------------------------------------------------
(* SpecWildcard: one server whose "*" registrations all come with a config
   (route-local middleware, body parsing, a validate predicate); its one
   concrete route has none. *)

WildcardConfigs == RouteConfigs \ {NoConfig}

WildcardRequests ==
  { Get(<<"/", "a">>),
    Get(<<"/", "b">>),
    Request("GET", <<"/", "b">>, <<>>, <<"6">>, "application/json"),
    Request("POST", <<"/", "b">>, <<>>, <<>>, Null) }

InitWildcard == InitWith(NoOptions, NoOptions)

RegisterWildcard ==
  /\ Setup
  /\ \/ /\ Len(middlewares["app"]) < MaxMiddlewares
        /\ Use("app", UserMiddleware)
     \/ /\ handlerCount < MaxRoutes
        /\ \E cfg \in WildcardConfigs : GET("app", <<"*">>, cfg)
     \/ /\ handlerCount < MaxRoutes
        /\ GET("app", <<"/", "a">>, NoConfig)

ServeWildcard(d) ==
  \/ \E req \in WildcardRequests : Handler(d, "app", req)
  \/ RunMiddleware(d)
  \/ Middleware(d, "next", 403)
  \/ MiddlewareResume(d, "return")
  \/ \E parsed \in BOOLEAN, valid \in ValidateDoes : ApplyRouteOptions(d, parsed, valid)
  \/ RouteHandler(d, "return", 200)
  \/ HandlerReturn(d)

NextWildcard == RegisterWildcard \/ ServeWildcard("d1")

SpecWildcard == InitWildcard /\ [][NextWildcard]_vars

----------------------------------------------------------------------------
(* SpecLate: use() and route() are also called while a call of handler() is
   in flight, suspended at an await of one of its middleware. *)

LateRequests == { Get(<<"/", "a">>), Get(<<"/", "f", "/", "a">>) }

InitLate == InitWith(NoOptions, NoOptions)

\* The dispatch is inside a middleware that awaits something else before it
\* calls next(): other code runs until that await settles.
Suspended(d) ==
  /\ ctl[d].op = "runMiddleware"
  /\ stack[d] # <<>>
  /\ Top(stack[d]).kind = "middleware"
  /\ trace[d][Len(trace[d])].ev = "middleware"
  /\ trace[d][Len(trace[d])].does = "yield"

RegisterLate ==
  \/ /\ Setup \/ Suspended("d1")
     /\ Len(middlewares["app"]) < MaxMiddlewares
     /\ Use("app", UserMiddleware)
  \/ /\ Setup \/ Suspended("d1")
     /\ Len(middlewares["app"]) < MaxMiddlewares
     /\ Route("app", <<"/", "f">>, "sub")
  \/ /\ Setup
     /\ handlerCount < MaxRoutes
     /\ \E s \in Servers : GET(s, <<"/", "a">>, NoConfig)

ServeLate(d) ==
  \/ \E req \in LateRequests : Handler(d, "app", req)
  \/ RunMiddleware(d)
  \/ \E does \in {"next", "yield"} : Middleware(d, does, 403)
  \/ MiddlewareResume(d, "return")
  \/ RouteMiddleware(d)
  \/ RouteResume(d)
  \/ ApplyRouteOptions(d, TRUE, "true")
  \/ RouteHandler(d, "return", 200)
  \/ HandlerReturn(d)

NextLate == RegisterLate \/ ServeLate("d1")

SpecLate == InitLate /\ [][NextLate]_vars

----------------------------------------------------------------------------
(* cors() of middleware.ts *)

AllowOrigin == "access-control-allow-origin"

\* CorsOptions (middleware.ts:3-9), its origin member: absent, a string, a
\* list of strings, or a predicate whose answers the invocation draws.  The
\* members methods, allowedHeaders, credentials and maxAge are left absent.
CorsOptions ==
  { [origin |-> [kind |-> "absent",    values |-> {}]],
    [origin |-> [kind |-> "string",    values |-> {"o1"}]],
    [origin |-> [kind |-> "list",      values |-> {"o1", "o2"}]],
    [origin |-> [kind |-> "predicate", values |-> {}]] }

\* The middleware cors(options) returns, as use() stores it.
CorsMiddleware(corsOptions) ==
  [kind |-> "cors", prefix |-> <<>>, instance |-> Null, options |-> corsOptions]

\* Mutant of IsOriginAllowed: every origin is allowed once the option is set.
IsOriginAllowedAny(origin, corsOptions, accepts) ==
  corsOptions.origin.kind # "absent"

\* isOriginAllowed (middleware.ts:11-16); accepts is what the predicate
\* answers when it is the one asked.
IsOriginAllowed(origin, corsOptions, accepts) ==
  CASE corsOptions.origin.kind = "absent"    -> FALSE
    [] corsOptions.origin.kind = "predicate" -> accepts
    [] corsOptions.origin.kind = "list"      -> origin \in corsOptions.origin.values
    [] corsOptions.origin.kind = "string"    -> corsOptions.origin.values = {origin}

\* setCorsHeaders (middleware.ts:24-40) on the headers of a response; origin
\* is Null when the request names none.
SetCorsHeaders(headers, corsOptions, origin, accepts) ==
  IF /\ corsOptions.origin.kind # "absent"
     /\ origin # Null
     /\ IsOriginAllowed(origin, corsOptions, accepts)
  THEN [headers EXCEPT ![AllowOrigin] = <<origin>>]
  ELSE headers

\* req.headers.get("origin") || undefined (middleware.ts:49).
OriginOf(req) == IF req.origin = "" THEN Null ELSE req.origin

\* The statuses the Response constructor accepts; with another one it
\* throws a RangeError.
ResponseStatuses == 200..599

\* The middleware cors() returns is invoked (middleware.ts:48-58): it answers
\* an OPTIONS request itself, and awaits next() for any other.
Cors(d, accepts) ==
  /\ ctl[d].op = "cors"
  /\ LET c      == ctl[d]
         f      == stack[d][Innermost(stack[d], "handler")]
         opts   == middlewares[c.srv][c.index].options
         origin == OriginOf(f.req)
     IN  IF f.req.method = "OPTIONS"
         THEN LET response ==
                    [status |-> 200, body |-> Null,
                     headers |-> SetCorsHeaders(NoHeaders, opts, origin, accepts)]
              IN  /\ Log(d, [ev |-> "cors", srv |-> c.srv, index |-> c.index,
                             method |-> f.req.method, origin |-> origin,
                             options |-> opts, accepts |-> accepts,
                             does |-> "respond", response |-> response])
                  /\ ctl' = [ctl EXCEPT ![d] =
                       [op |-> "return", response |-> response]]
                  /\ UNCHANGED stack
         ELSE /\ Log(d, [ev |-> "cors", srv |-> c.srv, index |-> c.index,
                         method |-> f.req.method, origin |-> origin,
                         options |-> opts, does |-> "next"])
              /\ stack' = [stack EXCEPT ![d] = Append(@,
                   [kind |-> "cors", srv |-> c.srv, index |-> c.index])]
              /\ ctl' = [ctl EXCEPT ![d] = [op |-> "runMiddleware"]]
  /\ UNCHANGED <<config, limiter, result>>

\* The next() cors awaits has resolved (middleware.ts:59-66): the headers of
\* the inner response are copied and completed, and a response is built with
\* them and with the inner status.
CorsResume(d, accepts) ==
  /\ ctl[d].op = "return"
  /\ stack[d] # <<>>
  /\ Top(stack[d]).kind = "cors"
  /\ LET f       == Top(stack[d])
         h       == stack[d][Innermost(stack[d], "handler")]
         opts    == middlewares[f.srv][f.index].options
         origin  == OriginOf(h.req)
         inner   == ctl[d].response
         headers == SetCorsHeaders(inner.headers, opts, origin, accepts)
         built   == inner.status \in ResponseStatuses
         response == [status |-> inner.status, body |-> inner.body,
                      headers |-> headers]
     IN  /\ Log(d, [ev |-> "corsed", srv |-> f.srv, index |-> f.index,
                    method |-> h.req.method, origin |-> origin,
                    options |-> opts, accepts |-> accepts,
                    inner |-> inner, built |-> built, response |-> response])
         /\ ctl' = [ctl EXCEPT ![d] =
              IF built
              THEN [op |-> "return", response |-> response]
              ELSE [op |-> "throw", error |-> "RangeError"]]
  /\ stack' = [stack EXCEPT ![d] = Pop(@)]
  /\ UNCHANGED <<config, limiter, result>>

\* The next() cors awaits has rejected: cors does not catch.
CorsReject(d) ==
  /\ ctl[d].op = "throw"
  /\ stack[d] # <<>>
  /\ Top(stack[d]).kind = "cors"
  /\ stack' = [stack EXCEPT ![d] = Pop(@)]
  /\ UNCHANGED <<config, limiter, ctl, trace, result>>

----------------------------------------------------------------------------
(* SpecCors: cors() among the global middleware of the application, in front
   of a middleware, a mount, a route and a wildcard handler for OPTIONS. *)

\* What a handler returns: a response it built, or the 101 response of
\* Deno.upgradeWebSocket(req).
HandlerStatuses == {200, 101}

CorsRequests ==
  { [Request(m, <<"/", "a">>, <<>>, <<>>, Null) EXCEPT !.origin = o] :
      m \in {"GET", "OPTIONS"}, o \in {Null, "", "o1", "o3"} }

InitCors == InitWith(NoOptions, NoOptions)

RegisterCors ==
  /\ Setup
  /\ \/ /\ Len(middlewares["app"]) < MaxMiddlewares
        /\ \E corsOptions \in CorsOptions : Use("app", CorsMiddleware(corsOptions))
     \/ /\ Len(middlewares["app"]) < MaxMiddlewares
        /\ Use("app", UserMiddleware)
     \/ /\ Len(middlewares["app"]) < MaxMiddlewares
        /\ Route("app", <<"/", "a">>, "sub")
     \/ /\ handlerCount < MaxRoutes
        /\ GET("app", <<"/", "a">>, NoConfig)
     \/ /\ handlerCount < MaxRoutes
        /\ OPTIONS("app", <<"*">>, NoConfig)

ServeCors(d) ==
  \/ \E req \in CorsRequests : Handler(d, "app", req)
  \/ RunMiddleware(d)
  \/ \E accepts \in BOOLEAN : Cors(d, accepts)
  \/ \E accepts \in BOOLEAN : CorsResume(d, accepts)
  \/ CorsReject(d)
  \/ Middleware(d, "next", 403)
  \/ MiddlewareResume(d, "return")
  \/ MiddlewareReject(d)
  \/ RouteMiddleware(d)
  \/ RouteResume(d)
  \/ ApplyRouteOptions(d, TRUE, "true")
  \/ \E status \in HandlerStatuses : RouteHandler(d, "return", status)
  \/ HandlerReturn(d)
  \/ HandlerCatch(d, 500)

NextCors == RegisterCors \/ ServeCors("d1")

SpecCors == InitCors /\ [][NextCors]_vars

----------------------------------------------------------------------------
(* Properties *)

Started(d) == trace[d] # <<>>
Request0(d) == trace[d][1].req
Server0(d)  == trace[d][1].srv
Events(d, ev) == {i \in 1..Len(trace[d]) : trace[d][i].ev = ev}

IsPrefix(s, t) == Len(s) <= Len(t) /\ SubSeq(t, 1, Len(s)) = s

AllDigits(s) == s # <<>> /\ \A i \in 1..Len(s) : s[i] \in Digits

\* The request declares a Content-Length above the server's maxBodySize.
DeclaredTooLarge(s, req) ==
  /\ AllDigits(req.contentLength)
  /\ DigitsValue(req.contentLength, 1, 0) > options[s].maxBodySize

\* C1: a request whose declared Content-Length exceeds maxBodySize is answered
\* 413 by handler() and no middleware, validate predicate or handler is
\* invoked for it (the trace holds the request alone).
C1_OversizeRejected ==
  \A d \in Dispatch :
    (Started(d) /\ DeclaredTooLarge(Server0(d), Request0(d)))
      => /\ ctl[d] = Done
         /\ result[d] = ErrorResponse("Request entity too large", 413)
         /\ Len(trace[d]) = 1

\* An oversize request was answered by a server whose configured limit is
\* not the default and that has global middleware and a route with local
\* middleware and a validate predicate.
C1_Witness ==
  /\ Started("d1")
  /\ DeclaredTooLarge("app", Request0("d1"))
  /\ options["app"].maxBodySize # DefaultMaxBodySize
  /\ result["d1"].status = 413
  /\ middlewares["app"] # <<>>
  /\ \E i \in 1..Len(routes["app"]["GET"]) :
       /\ routes["app"]["GET"][i].middleware # <<>>
       /\ routes["app"]["GET"][i].options.validate

\* The global middleware invocations, the terminal step and the responses the
\* global middleware observe, in the order they happened.
GlobalShape(d) ==
  LET t == SelectSeq(trace[d], LAMBDA e :
             \/ e.ev = "terminal"
             \/ (e.ev \in {"middleware", "after"} /\ e.scope = "global"))
  IN  [i \in 1..Len(t) |->
         <<t[i].ev, IF t[i].ev = "terminal" THEN 0 ELSE t[i].index>>]

\* In through M1..Mn, the terminal step, out through Mn..M1.
Onion(n) ==
  [i \in 1..(2 * n + 1) |->
     IF i <= n THEN <<"middleware", i>>
     ELSE IF i = n + 1 THEN <<"terminal", 0>>
     ELSE <<"after", 2 * n + 2 - i>>]

AllAwaitNext(d) ==
  \A i \in Events(d, "middleware") :
    trace[d][i].scope = "global" => trace[d][i].does = "next"

NoCatch(d) == Events(d, "catch") = {}

\* C2: when every global middleware awaits next(), a dispatch enters M1..Mn in
\* registration order, then runs the terminal step, and the response is
\* observed by Mn..M1 in that order; every one of them sees the response
\* handler() returns.
C2_OnionOrder ==
  \A d \in Dispatch :
    (Len(trace[d]) > 1 /\ AllAwaitNext(d))
      => /\ IsPrefix(GlobalShape(d), Onion(Len(middlewares[Server0(d)])))
         /\ (ctl[d] = Done /\ NoCatch(d))
              => /\ GlobalShape(d) = Onion(Len(middlewares[Server0(d)]))
                 /\ \A i \in Events(d, "after") :
                      trace[d][i].scope = "global"
                        => trace[d][i].status = result[d].status

\* Two global middleware awaited next() around a route handler that answered.
C2_Witness ==
  /\ ctl["d1"] = Done
  /\ AllAwaitNext("d1")
  /\ NoCatch("d1")
  /\ Len(middlewares["app"]) >= 2
  /\ Events("d1", "handler") # {}
  /\ Cardinality(Events("d1", "after")) >= 2

\* The handlers a dispatch has invoked, in order.
Invoked(d) == {trace[d][k].handler : k \in Events(d, "handler")}

\* The routes of the dispatched request's method that match its path.
Hits(d) == Matching(Server0(d), Request0(d).method, Request0(d).pathname)
RoutesOf(d) == routes[Server0(d)][Request0(d).method]

\* C3 as stated: of any two routes of the method that both match the path,
\* the handler of the one registered first is invoked and the handler of the
\* later one is not.
C3_FirstOfAnyTwo ==
  \A d \in Dispatch :
    ctl[d] = Done =>
      \A i \in Hits(d), j \in Hits(d) :
        i < j => /\ RoutesOf(d)[i].handler \in Invoked(d)
                 /\ RoutesOf(d)[j].handler \notin Invoked(d)

\* C3 as amended: of any two routes of the method that both match the path,
\* the handler of the later one is never invoked, and the handler of the
\* one registered first is invoked unless a route registered before it
\* matches as well: the earliest registered matching route wins.
C3_FirstMatchWins ==
  \A d \in Dispatch :
    Started(d) =>
      \A i \in Hits(d), j \in Hits(d) :
        i < j => /\ RoutesOf(d)[j].handler \notin Invoked(d)
                 /\ (ctl[d] = Done /\ \A h \in Hits(d) : i <= h)
                      => RoutesOf(d)[i].handler \in Invoked(d)

\* Two matching routes with another route registered between them; the
\* handler of the first has answered.
C3_Witness ==
  /\ ctl["d1"] = Done
  /\ \E i \in Hits("d1"), j \in Hits("d1") :
       /\ i + 1 < j
       /\ i + 1 \notin Hits("d1")
       /\ RoutesOf("d1")[i].handler \in Invoked("d1")

\* The terminal step's resolution that precedes the handler event at k.
ResolvedRoute(d, k) ==
  trace[d][Max({t \in Events(d, "terminal") : t < k})].route

\* C4: the handler of a concrete route is invoked with params that map each
\* :name of the template, in template order, to the substring captured at
\* that position, and hold no other key.
C4_ParamsByPosition ==
  \A d \in Dispatch :
    \A k \in Events(d, "handler") :
      ResolvedRoute(d, k) # 0 =>
        LET e     == trace[d][k]
            route == routes[e.srv][e.method][ResolvedRoute(d, k)]
            names == CollectParamNames(route.pattern, 1)
            caps  == RegexExec(route.regex, e.pathname).caps
        IN  /\ DOMAIN e.params = {names[i] : i \in 1..Len(names)}
            /\ \A i \in 1..Len(names) : e.params[names[i]] = caps[i]

\* C5: the wildcard handler of a method is invoked only for a path that no
\* concrete route of that method matches, whatever the order of registration.
C5_WildcardOnlyAsFallback ==
  \A d \in Dispatch :
    \A k \in Events(d, "handler") :
      LET e == trace[d][k]
      IN  e.handler = wildcardRoutes[e.srv][e.method]
            => Matching(e.srv, e.method, e.pathname) = {}

\* The wildcard handler answered on a server that registered concrete routes
\* of the same method both before and after the wildcard.
C5_Witness ==
  /\ ctl["d1"] = Done
  /\ \E k \in Events("d1", "handler") :
       LET e == trace["d1"][k]
           w == wildcardRoutes[e.srv][e.method]
           rs == routes[e.srv][e.method]
       IN  /\ e.handler = w
           /\ \E i \in 1..Len(rs), j \in 1..Len(rs) :
                rs[i].handler < w /\ w < rs[j].handler

\* What follows the trace entry at k is a later step of server s's global
\* chain after position index: a later middleware or mount, or the terminal
\* step.
ChainContinues(d, k, s, index) ==
  IF k = Len(trace[d])
  THEN /\ ctl[d].op \in {"runMiddleware", "middleware", "route"}
       /\ ctl[d].op # "runMiddleware"
            => ctl[d].srv = s /\ ctl[d].scope = "global" /\ ctl[d].index > index
  ELSE LET n == trace[d][k + 1]
       IN  /\ n.srv = s
           /\ \/ n.ev = "terminal"
              \/ n.ev = "middleware" /\ n.scope = "global" /\ n.index > index
              \/ n.ev = "route" /\ n.index > index

\* C6: when the child of a mount answers 404 on a path under the prefix, the
\* mount calls next(): the parent's chain goes on behind the mount, and the
\* dispatcher's own "Not found" is the final response only when no concrete
\* route and no wildcard route of the parent matches.
C6_MountFallsThrough ==
  \A d \in Dispatch :
    \A k \in Events(d, "routed") :
      trace[d][k].status = 404 =>
        /\ ChainContinues(d, k, trace[d][k].srv, trace[d][k].index)
        /\ (ctl[d] = Done /\ result[d] = ErrorResponse("Not found", 404))
             => /\ Hits(d) = {}
                /\ wildcardRoutes[Server0(d)][Request0(d).method] = NoHandler

\* A child answered 404 under its prefix and a route of the parent then
\* answered the request.
C6_Witness ==
  /\ ctl["d1"] = Done
  /\ result["d1"].status = 200
  /\ \E k \in Events("d1", "routed"), h \in Events("d1", "handler") :
       /\ trace["d1"][k].status = 404
       /\ k < h
       /\ trace["d1"][h].srv = Server0("d1")

\* C7: a child mounted under P resolves P + R (R beginning with "/") against
\* R and exactly P against "/", with the method and the query string of the
\* original request.
C7_MountStripsPrefix ==
  \A d \in Dispatch :
    /\ \A k \in Events(d, "route") :
         LET e    == trace[d][k]
             P    == e.prefix
             from == e.from.pathname
             R    == SubSeq(from, Len(P) + 1, Len(from))
         IN  /\ from = P => e.req.pathname = <<"/">>
             /\ (IsPrefix(P, from) /\ R # <<>> /\ R[1] = "/")
                  => e.req.pathname = R
             /\ e.req.method = e.from.method
             /\ e.req.search = e.from.search
    /\ \A k \in Events(d, "catch") : trace[d][k].error # "Invalid URL"

\* The trace entries at which user code or body parsing threw, and the error
\* each of them threw.
Throws(d) ==
  {k \in 1..Len(trace[d]) :
     LET e == trace[d][k]
     IN  \/ e.ev \in {"middleware", "after", "handler"} /\ e.does = "throw"
         \/ e.ev = "parse" /\ ~e.parsed
         \/ e.ev = "validate" /\ e.valid # "true"}

ErrorOf(e) ==
  CASE e.ev \in {"middleware", "after"} -> "middleware failed"
    [] e.ev = "handler"                 -> "handler failed"
    [] e.ev = "parse"                   -> "body cannot be parsed"
    [] e.ev = "validate" /\ e.valid = "false" -> "Validation failed"
    [] e.ev = "validate" /\ e.valid = "throw" -> "validate failed"

\* C8: an error thrown by a global middleware (before or after next()), a
\* route-local middleware, body parsing, the validate predicate or the route
\* handler never leaves handler(): it travels to the catch of handler(),
\* where the configured errorHandler is invoked with that error and the
\* request and its result is the response, or else the response is the 500.
C8_ErrorsBecomeResponses ==
  \A d \in Dispatch :
    /\ ctl[d].op = "throw" => stack[d] # <<>> /\ stack[d][1].kind = "handler"
    /\ \A k \in Throws(d) :
         IF k = Len(trace[d])
         THEN ctl[d].op = "throw" /\ ctl[d].error = ErrorOf(trace[d][k])
         ELSE LET c == trace[d][k + 1]
              IN  /\ k + 1 = Len(trace[d])
                  /\ c.ev = "catch"
                  /\ c.error = ErrorOf(trace[d][k])
                  /\ c.req = Request0(d)
                  /\ ctl[d] = Done
                  /\ IF options[c.srv].errorHandler
                     THEN c.errorHandler /\ result[d].body = "errorHandler"
                     ELSE result[d] = ErrorResponse("Internal Server Error", 500)

\* A global middleware threw after its next() had resolved, and the
\* configured errorHandler produced the response.
C8_Witness ==
  /\ ctl["d1"] = Done
  /\ result["d1"].body = "errorHandler"
  /\ \E k \in Throws("d1") : trace["d1"][k].ev = "after"

\* C9: when the validate predicate of the matched route returns false, the
\* route handler is not invoked and the response status is in 400..499.
C9_ValidateRejects4xx ==
  \A d \in Dispatch :
    \A k \in Events(d, "validate") :
      trace[d][k].valid = "false" =>
        /\ \A h \in Events(d, "handler") : h < k
        /\ ctl[d] = Done => result[d].status \in 400..499

\* The trace entries at which the chain of the resolved route runs: its
\* route-local middleware and its handler.
RouteChain(d) ==
  {k \in 1..Len(trace[d]) :
     \/ trace[d][k].ev = "handler"
     \/ trace[d][k].ev = "middleware" /\ trace[d][k].scope = "local"}

\* C10: on every resolution of a concrete route its options are applied
\* before its route-local middleware and its handler run: the validate
\* predicate of the route has been invoked before any of them.
C10_OptionsBeforeRouteChain ==
  \A d \in Dispatch :
    \A k \in RouteChain(d) :
      LET r == ResolvedRoute(d, k)
      IN  (r # 0 /\ RoutesOf(d)[r].options.validate)
            => \E v \in Events(d, "validate") : v < k

\* C11: an error thrown by user code of a mounted child that has no
\* errorHandler propagates to the parent: no catch of the child recovers it,
\* the catch of the parent's handler() does, exactly once, and a configured
\* errorHandler of the parent produces the response.
C11_ChildErrorReachesParent ==
  \A d \in Dispatch :
    \A k \in Throws(d) :
      LET e       == trace[d][k]
          catches == {c \in Events(d, "catch") : c > k}
      IN  (e.srv # Server0(d) /\ ~options[e.srv].errorHandler) =>
            /\ \A c \in catches : trace[d][c].srv = Server0(d)
            /\ ctl[d] = Done =>
                 /\ Cardinality(catches) = 1
                 /\ \A c \in catches : trace[d][c].error = ErrorOf(e)
                 /\ options[Server0(d)].errorHandler
                      => result[d].body = "errorHandler"

\* No concrete route of the request's method matches its path and the method
\* has no wildcard handler.
NoRouteFor(d) ==
  /\ Hits(d) = {}
  /\ wildcardRoutes[Server0(d)][Request0(d).method] = NoHandler

\* The positions of the global middleware entered before the trace entry at t.
EnteredBefore(d, t) ==
  {trace[d][k].index : k \in {i \in Events(d, "middleware") :
                                i < t /\ trace[d][i].scope = "global"}}

NotFound == ErrorResponse("Not found", 404)

\* C12: when no concrete route of the method matches the path and the method
\* has no wildcard handler, the global chain still runs up to the terminal
\* step (every global middleware has been entered when it is reached), no
\* route-local middleware, validate predicate or handler is invoked, and the
\* terminal step yields the 404 "Not found" response, which is the result of
\* handler() when every middleware passes it on.
C12_NotFound ==
  \A d \in Dispatch :
    (Started(d) /\ NoRouteFor(d)) =>
      /\ \A k \in 1..Len(trace[d]) :
           /\ trace[d][k].ev \notin {"handler", "validate", "parse"}
           /\ trace[d][k].ev = "middleware" => trace[d][k].scope = "global"
      /\ \A t \in Events(d, "terminal") :
           /\ ~trace[d][t].found
           /\ EnteredBefore(d, t) = 1..Len(middlewares[Server0(d)])
           /\ IF t < Len(trace[d])
              THEN trace[d][t + 1].ev = "after" /\ trace[d][t + 1].status = 404
              ELSE \/ ctl[d] = [op |-> "return", response |-> NotFound]
                   \/ ctl[d] = Done /\ result[d] = NotFound
      /\ (ctl[d] = Done /\ AllAwaitNext(d) /\ NoCatch(d)
            /\ ~DeclaredTooLarge(Server0(d), Request0(d)))
           => /\ Events(d, "terminal") # {}
              /\ result[d] = NotFound

\* A request for a path that the one registered route does not match went
\* through two global middleware and was answered 404 "Not found".
C12_Witness ==
  /\ ctl["d1"] = Done
  /\ NoRouteFor("d1")
  /\ routes["app"]["GET"] # <<>>
  /\ result["d1"] = NotFound
  /\ Cardinality(Events("d1", "after")) >= 2

\* The trace entries at which a global middleware answered without calling
\* next().
ShortCircuits(d) ==
  {k \in Events(d, "middleware") :
     trace[d][k].scope = "global" /\ trace[d][k].does = "respond"}

\* C13: when global middleware Mk returns a response without calling next(),
\* nothing registered behind it runs (no later middleware, no route
\* resolution, no route-local middleware, no handler): all that follows is
\* M(k-1)..M1 observing Mk's response, in that order, and that response is
\* what handler() returns unless one of them throws.
C13_ShortCircuit ==
  \A d \in Dispatch :
    \A k \in ShortCircuits(d) :
      LET j == trace[d][k].index
      IN  /\ \A i \in (k + 1)..Len(trace[d]) :
               LET e == trace[d][i]
               IN  \/ /\ e.ev = "after"
                      /\ e.scope = "global"
                      /\ e.index = j - (i - k)
                      /\ e.status = trace[d][k + 1].status
                   \/ /\ e.ev = "catch"
                      /\ i = Len(trace[d])
                      /\ trace[d][i - 1].ev = "after"
                      /\ trace[d][i - 1].does = "throw"
          /\ ctl[d].op = "return" =>
               /\ ctl[d].response.body = "middleware"
               /\ k < Len(trace[d]) => trace[d][k + 1].status = ctl[d].response.status
          /\ (ctl[d] = Done /\ NoCatch(d)) =>
               /\ Len(trace[d]) = k + j - 1
               /\ result[d].body = "middleware"
               /\ k < Len(trace[d]) => trace[d][k + 1].status = result[d].status

\* The second of two global middleware answered a request that a registered
\* route matches; the first observed that response and returned it.
C13_Witness ==
  /\ ctl["d1"] = Done
  /\ NoCatch("d1")
  /\ Hits("d1") # {}
  /\ \E k \in ShortCircuits("d1") :
       /\ trace["d1"][k].index = 2
       /\ k < Len(trace["d1"])
       /\ trace["d1"][k + 1].ev = "after"

\* The middleware invocations (global and route-local), the terminal step,
\* the handler invocation and the responses the middleware observe, in the
\* order they happened.
ChainShape(d) ==
  LET t == SelectSeq(trace[d], LAMBDA e :
             e.ev \in {"middleware", "after", "terminal", "handler"})
  IN  [i \in 1..Len(t) |->
         IF t[i].ev \in {"terminal", "handler"} THEN <<t[i].ev, "", 0>>
         ELSE <<t[i].ev, t[i].scope, t[i].index>>]

\* In through the n global and the m route-local middleware, the handler
\* innermost, out through the local and then the global middleware reversed.
NestedOnion(n, m) ==
  [i \in 1..n |-> <<"middleware", "global", i>>]
    \o << <<"terminal", "", 0>> >>
    \o [i \in 1..m |-> <<"middleware", "local", i>>]
    \o << <<"handler", "", 0>> >>
    \o [i \in 1..m |-> <<"after", "local", m + 1 - i>>]
    \o [i \in 1..n |-> <<"after", "global", n + 1 - i>>]

EveryMiddlewareAwaitsNext(d) ==
  \A k \in Events(d, "middleware") : trace[d][k].does = "next"

\* The route-local middleware of the route the terminal step resolved.
LocalChain(d) ==
  LET ts == Events(d, "terminal")
      r  == trace[d][Min(ts)].route
  IN  IF ts = {} \/ r = 0 THEN <<>> ELSE RoutesOf(d)[r].middleware

\* C14: for a matched route with local middleware L1..Lm, the local chain is
\* entered after every global middleware has been entered, runs L1..Lm in
\* order with the handler innermost, and the response returns through
\* Lm..L1 and then through the global middleware in reverse order; a local
\* middleware that does not call next() keeps the handler from running.
C14_LocalChain ==
  \A d \in Dispatch :
    /\ (Len(trace[d]) > 1 /\ EveryMiddlewareAwaitsNext(d) /\ LocalChain(d) # <<>>)
         => LET onion == NestedOnion(Len(middlewares[Server0(d)]),
                                     Len(LocalChain(d)))
            IN  /\ IsPrefix(ChainShape(d), onion)
                /\ (ctl[d] = Done /\ NoCatch(d))
                     => /\ ChainShape(d) = onion
                        /\ \A k \in Events(d, "after") :
                             trace[d][k].status = result[d].status
    /\ \A k \in Events(d, "middleware") :
         (trace[d][k].scope = "local" /\ trace[d][k].does # "next")
           => Events(d, "handler") = {}

\* A request went in through a global middleware and two route-local
\* middleware to the handler, and its response came back through all three.
C14_Witness ==
  /\ ctl["d1"] = Done
  /\ NoCatch("d1")
  /\ EveryMiddlewareAwaitsNext("d1")
  /\ Len(LocalChain("d1")) = 2
  /\ middlewares["app"] # <<>>
  /\ Cardinality(Events("d1", "after")) = Len(middlewares["app"]) + 2

\* C15: every response handler() returns on a server constructed with
\* defaultHeaders carries each configured default header, whichever path
\* produced it (handler, 404, 413, error response).
C15_DefaultHeaders ==
  \A d \in Dispatch :
    ctl[d] = Done =>
      \A h \in HeaderNames :
        options[Server0(d)].defaultHeaders[h] # <<>>
          => result[d].headers[h] = options[Server0(d)].defaultHeaders[h]

\* C16: whenever a route handler is invoked, through a concrete route or
\* through the wildcard slot of the method, req.query maps every key of the
\* request URL's query string to its value.
C16_QueryParsed ==
  \A d \in Dispatch :
    \A k \in Events(d, "handler") :
      LET e        == trace[d][k]
          expected == ParseQuery(e.search)
      IN  /\ DOMAIN e.query = DOMAIN expected
          /\ \A key \in DOMAIN expected : e.query[key] = expected[key]

\* C17: the handler registered with "*" for a method is invoked, with empty
\* params, for every request of that method whose path no concrete route of
\* the method matches, whatever the path; it is never invoked for a request
\* of another method.
C17_WildcardCatchAll ==
  \A d \in Dispatch :
    Started(d) =>
      LET method == Request0(d).method
          w      == wildcardRoutes[Server0(d)][method]
      IN  /\ (w # NoHandler /\ Hits(d) = {}) =>
               /\ \A k \in Events(d, "handler") :
                    /\ trace[d][k].handler = w
                    /\ DOMAIN trace[d][k].params = {}
               /\ ctl[d] = Done => Events(d, "handler") # {}
          /\ \A k \in Events(d, "handler"), m \in Methods \ {method} :
               trace[d][k].handler # wildcardRoutes[Server0(d)][m]

\* The GET wildcard handler answered a path of three segments on a server
\* that also has concrete GET routes and a POST wildcard handler.
C17_Witness ==
  /\ ctl["d1"] = Done
  /\ routes["app"]["GET"] # <<>>
  /\ wildcardRoutes["app"]["POST"] # NoHandler
  /\ \E k \in Events("d1", "handler") :
       /\ trace["d1"][k].handler = wildcardRoutes["app"]["GET"]
       /\ trace["d1"][k].pathname = <<"/", "a", "/", "b", "/", "c">>

\* The markers a header value lists, in order.
MarkersOf(value) == SelectSeq(value, LAMBDA c : c \notin {",", " "})

\* Exactly two global middleware, A then B, each awaited next() and then
\* appended its marker to x-order; handler() has returned their response.
BothAppended(d) ==
  /\ ctl[d] = Done
  /\ NoCatch(d)
  /\ Len(middlewares[Server0(d)]) = 2
  /\ Cardinality(Events(d, "middleware")) = 2
  /\ Cardinality(Events(d, "after")) = 2
  /\ \A k \in Events(d, "middleware") : trace[d][k].does = "next"
  /\ \A k \in Events(d, "after") : trace[d][k].does = "append"

\* C18 as stated: with global middleware A then B, each awaiting next() and
\* then appending its marker to the same response header, the final value of
\* the header reads "A,B".
C18_MarkersInRegistrationOrder ==
  \A d \in Dispatch :
    BothAppended(d) => MarkersOf(result[d].headers["x-order"]) = <<"A", "B">>

\* C18 as amended: the final value of the header lists B's marker first and
\* A's marker last ("B, A"): the outer middleware A appends last.
C18_MarkersInReverseOrder ==
  \A d \in Dispatch :
    BothAppended(d) => result[d].headers["x-order"] = <<"B", ",", " ", "A">>

\* Both middleware appended their markers around a response.
C18_Witness == BothAppended("d1") /\ result["d1"].status = 200

\* C19: a route whose template repeats a parameter name is rejected at
\* registration and the route table is left unchanged: the table never holds
\* a route with a repeated parameter name.
C19_RepeatedNameRejected ==
  \A s \in Servers, m \in Methods :
    \A i \in 1..Len(routes[s][m]) :
      LET names == CollectParamNames(routes[s][m][i].pattern, 1)
      IN  \A a \in 1..Len(names), b \in 1..Len(names) :
            names[a] = names[b] => a = b

\* One segment of a pattern against one segment of a path: a :name takes one
\* or more characters, a lone * any one segment, literal text itself.
SegmentMatches(p, s) ==
  IF p # <<>> /\ p[1] = ":" THEN s # <<>>
  ELSE IF p = <<"*">> THEN TRUE
  ELSE p = s

\* C20: a concrete route matches a path only as a whole and segment for
\* segment: whenever the handler of a concrete route is invoked, the path has
\* as many "/"-separated segments as the pattern and each segment of the
\* pattern matches the segment of the path at its position.
C20_SegmentWise ==
  \A d \in Dispatch :
    \A k \in Events(d, "handler") :
      ResolvedRoute(d, k) # 0 =>
        LET e  == trace[d][k]
            ps == Split(routes[e.srv][e.method][ResolvedRoute(d, k)].pattern, "/")
            ss == Split(e.pathname, "/")
        IN  /\ Len(ps) = Len(ss)
            /\ \A i \in 1..Len(ps) : SegmentMatches(ps[i], ss[i])

\* C21: when the child of a mount answers a path under the prefix with any
\* status other than 404 (its own 413, 4xx and 500 included), the parent
\* returns exactly that response: behind the mount no route of the parent is
\* resolved and no handler is invoked, the middleware entered before the
\* mount observe that response, and it is the result of handler().
C21_MountReturnsChildResponse ==
  \A d \in Dispatch :
    \A k \in Events(d, "routed") :
      LET e == trace[d][k]
      IN  (e.srv = Server0(d) /\ e.status # 404) =>
            /\ \A i \in (k + 1)..Len(trace[d]) :
                 /\ trace[d][i].ev = "after"
                 /\ trace[d][i].srv = e.srv
                 /\ trace[d][i].index < e.index
                 /\ trace[d][i].status = e.status
            /\ ctl[d].op = "return" => ctl[d].response = e.response
            /\ ctl[d] = Done => result[d] = e.response

\* The child answered 500 or 413 under its prefix; the parent, which has a
\* wildcard route of its own, returned that response.
C21_Witness ==
  /\ ctl["d1"] = Done
  /\ wildcardRoutes["app"]["GET"] # NoHandler
  /\ result["d1"].status \in {413, 500}
  /\ \E k \in Events("d1", "routed") : trace["d1"][k].status = result["d1"].status

\* The positions before j of server s's global chain that hold a middleware
\* passed to use(), and those before j that hold a mount.
UsedBefore(s, j) == {i \in 1..(j - 1) : middlewares[s][i].kind = "user"}
MountsBefore(s, j) == {i \in 1..(j - 1) : middlewares[s][i].kind = "route"}

\* The global middleware of server s entered (ev = "middleware") or resumed
\* (ev = "after") at the trace entries strictly between lo and hi.
GlobalAt(d, ev, s, lo, hi) ==
  {i \in Events(d, ev) :
     lo < i /\ i < hi /\ trace[d][i].srv = s /\ trace[d][i].scope = "global"}

\* C22: a mount sits in the parent's global chain where route() was called.
\* The parent middleware registered before it have all been entered when the
\* child is called and observe the child's response, innermost first, when
\* the mount returns it; a parent middleware registered after it is entered
\* only when the mount passed through: the path does not start with the
\* prefix, or the child answered 404.
C22_MountPosition ==
  \A d \in Dispatch :
    /\ \A k \in Events(d, "route") :
         LET e == trace[d][k]
         IN  {trace[d][i].index : i \in GlobalAt(d, "middleware", e.srv, 0, k)}
               = UsedBefore(e.srv, e.index)
    /\ \A k \in Events(d, "routed") :
         LET e    == trace[d][k]
             outs == GlobalAt(d, "after", e.srv, k, Len(trace[d]) + 1)
         IN  (e.status # 404 /\ ctl[d] = Done) =>
               /\ {trace[d][i].index : i \in outs} = UsedBefore(e.srv, e.index)
               /\ \A i \in outs : trace[d][i].status = e.status
               /\ \A i \in outs, j \in outs :
                    i < j => trace[d][i].index > trace[d][j].index
    /\ \A k \in Events(d, "middleware") :
         LET e == trace[d][k]
         IN  e.scope = "global" =>
               \A j \in MountsBefore(e.srv, e.index) :
                 \/ ~StartsWith(Request0(d).pathname, middlewares[e.srv][j].prefix)
                 \/ \E r \in Events(d, "routed") :
                      r < k /\ trace[d][r].index = j /\ trace[d][r].status = 404

\* A middleware, a mount and another middleware, registered in that order:
\* the child answered 404, the last middleware was entered behind the mount,
\* and the first one observed the response.
C22_Witness ==
  /\ ctl["d1"] = Done
  /\ Len(middlewares["app"]) = 3
  /\ middlewares["app"][2].kind = "route"
  /\ UsedBefore("app", 4) = {1, 3}
  /\ \E r \in Events("d1", "routed"), k \in Events("d1", "middleware") :
       r < k /\ trace["d1"][r].status = 404 /\ trace["d1"][k].index = 3
  /\ \E i \in Events("d1", "after") : trace["d1"][i].index = 1

\* What one call of handler(req) on server s does when it is the only one
\* in flight and every middleware awaits next(): the global middleware in
\* order, the terminal step, the handler with the request's params and
\* query, and the middleware resuming innermost first.
AloneGlobals(s) ==
  [i \in 1..Len(middlewares[s]) |->
     [ev |-> "middleware", srv |-> s, scope |-> "global", index |-> i,
      does |-> "next"]]

AloneResponse(s, req) ==
  IF DeclaredTooLarge(s, req) THEN ErrorResponse("Request entity too large", 413)
  ELSE IF FindMatchingRoute(s, req.method, req.pathname, req.search).found
  THEN UserResponse(200, "handler")
  ELSE NotFound

AloneResumes(s, req) ==
  [i \in 1..Len(middlewares[s]) |->
     [ev |-> "after", srv |-> s, scope |-> "global",
      index |-> Len(middlewares[s]) + 1 - i,
      status |-> AloneResponse(s, req).status, does |-> "return"]]

AloneTrace(s, req) ==
  LET m == FindMatchingRoute(s, req.method, req.pathname, req.search)
  IN  <<[ev |-> "request", srv |-> s, req |-> req,
         registered |-> Len(middlewares[s])]>> \o
      IF DeclaredTooLarge(s, req) THEN <<>>
      ELSE AloneGlobals(s) \o
           <<[ev |-> "terminal", srv |-> s, found |-> m.found, route |-> m.route]>> \o
           (IF m.found
            THEN <<[ev |-> "handler", srv |-> s, handler |-> m.handler,
                    method |-> req.method, pathname |-> req.pathname,
                    search |-> req.search, params |-> m.params,
                    query |-> m.query, body |-> Null, does |-> "return"]>>
            ELSE <<>>) \o
           AloneResumes(s, req)

\* C23: with two calls of handler() in flight on one server and stateless
\* middleware, each call invokes the middleware and the handler in the order,
\* and with the params and query, it would have alone, and returns the
\* response it would have returned alone.
C23_ConcurrentAsAlone ==
  \A d \in Dispatch :
    Started(d) =>
      /\ IsPrefix(trace[d], AloneTrace(Server0(d), Request0(d)))
      /\ ctl[d] = Done =>
           /\ trace[d] = AloneTrace(Server0(d), Request0(d))
           /\ result[d] = AloneResponse(Server0(d), Request0(d))

\* Both calls are in flight at once, past their first middleware, for
\* different requests, and one of them has completed through the handler
\* while the other was still inside the chain.
C23_Witness ==
  /\ ctl["d1"] = Done
  /\ Events("d1", "handler") # {}
  /\ Events("d1", "after") # {}
  /\ Events("d2", "middleware") # {}
  /\ Events("d2", "terminal") = {}
  /\ ctl["d2"] # Done
  /\ Request0("d1") # Request0("d2")

\* The key a call is accounted to as the documentation has it: the header's
\* value, "unknown" when the header is absent.
HeaderKey(i) == IF calls[i].forwarded = Null THEN "unknown" ELSE calls[i].forwarded

CodeKey(i) == calls[i].ip

\* The calls before call i that share its key.
EarlierOf(Key(_), i) == {j \in 1..(i - 1) : Key(j) = Key(i)}

\* The time the window of call i started: a key's first call starts a window
\* that ends windowMs later, and the first call strictly after the end of
\* the key's current window starts the next one.
RECURSIVE WindowStart(_, _)
WindowStart(Key(_), i) ==
  IF EarlierOf(Key, i) = {} THEN calls[i].now
  ELSE LET w == WindowStart(Key, Max(EarlierOf(Key, i)))
       IN  IF calls[i].now > w + rateLimitOptions.windowMs THEN calls[i].now ELSE w

StartsWindow(Key(_), i) ==
  \/ EarlierOf(Key, i) = {}
  \/ calls[i].now > WindowStart(Key, Max(EarlierOf(Key, i))) + rateLimitOptions.windowMs

\* The calls up to call n, of the key and window of call i, that reached next().
PassedInWindow(Key(_), i, n) ==
  {j \in 1..n : /\ Key(j) = Key(i)
                /\ WindowStart(Key, j) = WindowStart(Key, i)
                /\ calls[j].does = "next"}

\* What call i does when the calls of the other keys are left out.
RECURSIVE Replay(_, _, _)
Replay(Key(_), i, n) ==
  IF n = 0 THEN [requests |-> [k \in ClientKeys |-> NoRequestData], does |-> "none"]
  ELSE LET before == Replay(Key, i, n - 1)
       IN  IF Key(n) # Key(i) THEN before
           ELSE RateLimit(before.requests, rateLimitOptions, calls[n].ip, calls[n].now)

\* C24: for every max >= 0 and every key, at most max calls of one window
\* reach next(), every further call of the window is answered 429, and the
\* calls of the other keys do not change what a call does.
C24_AtMostMaxPerWindow ==
  \A i \in 1..Len(calls) :
    /\ Cardinality(PassedInWindow(HeaderKey, i, Len(calls))) <= rateLimitOptions.max
    /\ Cardinality(PassedInWindow(HeaderKey, i, i - 1)) >= rateLimitOptions.max
         => calls[i].does = "429"
    /\ calls[i].does = Replay(HeaderKey, i, i).does

\* C25: a key's window starts at its first counted call and ends windowMs
\* later; a call answered 429 changes neither the count nor the end of the
\* window; a call at exactly resetTime is judged by the old window's count;
\* the first call strictly after resetTime reaches next() and starts a window
\* with count 1.
C25_WindowAccounting ==
  \A i \in 1..Len(calls) :
    /\ StartsWindow(CodeKey, i) => calls[i].does = "next"
    /\ ~StartsWindow(CodeKey, i) =>
         (calls[i].does = "next" <=>
            Cardinality(PassedInWindow(CodeKey, i, i - 1)) < rateLimitOptions.max)
    /\ (\A j \in (i + 1)..Len(calls) : CodeKey(j) # CodeKey(i)) =>
         requests[CodeKey(i)] =
           <<[count     |-> Cardinality(PassedInWindow(CodeKey, i, i)),
              resetTime |-> WindowStart(CodeKey, i) + rateLimitOptions.windowMs]>>

\* A key's first call passed, its call at exactly resetTime was answered 429
\* and left the Map as it was, and its next call, after resetTime, passed.
C25_Witness ==
  /\ Len(calls) = 3
  /\ \A i \in 1..3 : calls[i].ip = "a"
  /\ calls[2].now = calls[1].now + rateLimitOptions.windowMs
  /\ calls[2].does = "429"
  /\ calls[3].now > calls[2].now
  /\ calls[3].does = "next"
  /\ requests["a"] = <<[count |-> 1,
                        resetTime |-> calls[3].now + rateLimitOptions.windowMs]>>

\* A Content-Length value that is a decimal integer: an optional sign and
\* digits, nothing else.
DecimalInteger(s) ==
  \/ AllDigits(s)
  \/ Len(s) > 1 /\ s[1] \in {"-", "+"} /\ AllDigits(Tail(s))

IntegerValue(s) ==
  IF s[1] = "-" THEN 0 - DigitsValue(Tail(s), 1, 0)
  ELSE IF s[1] = "+" THEN DigitsValue(Tail(s), 1, 0)
  ELSE DigitsValue(s, 1, 0)

\* handler() answered 413 before anything else was invoked.
RejectedForSize(d) ==
  /\ ctl[d] = Done
  /\ Len(trace[d]) = 1
  /\ result[d] = ErrorResponse("Request entity too large", 413)

\* handler() went on to the middleware chain.
ProceedsToChain(d) == stack[d] # <<>> \/ Len(trace[d]) > 1

\* C26: a request is rejected by the body size check iff its Content-Length,
\* an integer, is strictly greater than maxBodySize (1048576 when the server
\* was built without one); without the header, or with a value up to and
\* including maxBodySize, it proceeds to the middleware chain.
C26_RejectedIffStrictlyGreater ==
  \A d \in Dispatch :
    LET length == Request0(d).contentLength
        limit  == options[Server0(d)].maxBodySize
    IN  (Started(d) /\ (length = <<>> \/ DecimalInteger(length)))
          => /\ RejectedForSize(d) <=> (length # <<>> /\ IntegerValue(length) > limit)
             /\ ~RejectedForSize(d) <=> ProceedsToChain(d)

\* A server built without maxBodySize let a request of exactly 1048576
\* declared bytes through to its middleware.
C26_Witness ==
  /\ Started("d1")
  /\ options["app"].maxBodySize = DefaultMaxBodySize
  /\ DecimalInteger(Request0("d1").contentLength)
  /\ IntegerValue(Request0("d1").contentLength) = DefaultMaxBodySize
  /\ Events("d1", "middleware") # {}

\* C27: a mount under prefix P passes a request to the child only when its
\* path is exactly P or begins with P followed by "/".
C27_SegmentBoundary ==
  \A d \in Dispatch :
    \A k \in Events(d, "route") :
      LET P    == trace[d][k].prefix
          from == trace[d][k].from.pathname
      IN  from = P \/ IsPrefix(P \o <<"/">>, from)

C29_InvokedAtMostOnce ==
  \A d \in Dispatch :
    \A i, j \in 1..Len(trace[d]) :
      LET a == trace[d][i]
          b == trace[d][j]
      IN  /\ (a.ev = "handler" /\ b.ev = "handler" /\ a.handler = b.handler)
               => i = j
          /\ (a.ev = "middleware" /\ b.ev = "middleware"
              /\ a.scope = "global" /\ b.scope = "global" /\ a.index = b.index)
               => i = j

\* C30: the handler of a "*" registration is called directly by the terminal
\* step: the route-local middleware and the options of that registration's
\* config are never executed, and the registration adds no entry to the
\* method's route list.
C30_WildcardConfigIgnored ==
  /\ \A s \in Servers, m \in Methods :
       \A i \in 1..Len(routes[s][m]) : routes[s][m][i].pattern # <<"*">>
  /\ \A d \in Dispatch :
       /\ Events(d, "parse") = {}
       /\ Events(d, "validate") = {}
       /\ \A k \in Events(d, "middleware") : trace[d][k].scope # "local"
       /\ \A k \in Events(d, "handler") :
            LET e == trace[d][k]
            IN  e.handler = wildcardRoutes[e.srv][e.method]
                  => /\ trace[d][k - 1].ev = "terminal"
                     /\ trace[d][k - 1].found
                     /\ e.body = Null

\* The handler of a "*" registration, which came with a config, answered a
\* request that declares a JSON body, behind a global middleware.
C30_Witness ==
  /\ ctl["d1"] = Done
  /\ result["d1"].status = 200
  /\ Request0("d1").contentType = "application/json"
  /\ Events("d1", "middleware") # {}
  /\ \E k \in Events("d1", "handler") :
       trace["d1"][k].handler = wildcardRoutes["app"]["GET"]

\* C31: a dispatch runs the global middleware and mounts that were registered
\* when it started: one added while the dispatch is in flight is never
\* invoked for it.
C31_ChainFixedAtStart ==
  \A d \in Dispatch :
    \A k \in 1..Len(trace[d]) :
      LET e == trace[d][k]
      IN  (/\ e.ev \in {"middleware", "route"}
           /\ e.srv = Server0(d)
           /\ e.ev = "middleware" => e.scope = "global")
            => e.index <= trace[d][1].registered

\* C32: cors answers an OPTIONS request itself with status 200 and nothing
\* behind it runs (no later middleware, mount, route or wildcard handler);
\* for any other method it calls next() and the response it returns has the
\* status of the inner response.
C32_CorsOptionsOrPassThrough ==
  \A d \in Dispatch :
    /\ \A k \in Events(d, "cors") :
         LET e == trace[d][k]
         IN  IF e.method = "OPTIONS"
             THEN /\ e.does = "respond"
                  /\ e.response.status = 200
                  /\ \A j \in (k + 1)..Len(trace[d]) : trace[d][j].ev = "after"
             ELSE e.does = "next"
    /\ \A k \in Events(d, "corsed") :
         /\ trace[d][k].built
         /\ trace[d][k].response.status = trace[d][k].inner.status

\* What the origin option allows: the origin equal to its string, a member
\* of its list, or one its predicate accepted.
OptionAllows(corsOptions, origin, accepts) ==
  \/ corsOptions.origin.kind = "string"    /\ corsOptions.origin.values = {origin}
  \/ corsOptions.origin.kind = "list"      /\ origin \in corsOptions.origin.values
  \/ corsOptions.origin.kind = "predicate" /\ accepts

\* C33: a response leaving cors, on the OPTIONS branch or on the pass-through
\* branch with an inner response that did not carry the header, carries
\* Access-Control-Allow-Origin only if the request has an Origin header the
\* configured origin option allows, and its value is then that origin.
C33_AllowOriginOnlyForAllowedOrigin ==
  \A d \in Dispatch : \A k \in Events(d, "cors") \cup Events(d, "corsed") :
    LET e      == trace[d][k]
        leaves == \/ e.ev = "cors" /\ e.does = "respond"
                  \/ e.ev = "corsed" /\ e.built
        fresh  == e.ev = "cors" \/ e.inner.headers[AllowOrigin] = <<>>
    IN  (leaves /\ fresh /\ e.response.headers[AllowOrigin] # <<>>)
          => /\ Request0(d).origin # Null
             /\ OptionAllows(e.options, Request0(d).origin, e.accepts)
             /\ e.response.headers[AllowOrigin] = <<Request0(d).origin>>

\* The pass-through branch has added the header to the response of a route
\* handler, under a predicate that accepted the origin, and the request is
\* answered with it.
C33_Witness ==
  /\ ctl["d1"] = Done
  /\ result["d1"].headers[AllowOrigin] = <<"o1">>
  /\ \E k \in Events("d1", "corsed") :
       /\ trace["d1"][k].options.origin.kind = "predicate"
       /\ trace["d1"][k].inner.headers[AllowOrigin] = <<>>
       /\ trace["d1"][k].response.headers[AllowOrigin] = <<"o1">>
  /\ Events("d1", "handler") # {}

====
